---- MODULE Spec2Model ----
(***************************************************************************)
(* A model of fovea's layered scene registry (plotter2D), its render       *)
(* synchronization (show / _subplots / buildLayer), the time playback and   *)
(* the modal interaction controller (diagnosticGUI) and the line-of-        *)
(* interest context object (line_GUI), all of src/fovea/graphics.py.        *)
(*                                                                         *)
(* Python values are modelled as follows.                                  *)
(*  - None in a string-valued slot is the string "None"; None in a tuple-   *)
(*    valued slot is the empty sequence.                                    *)
(*  - an attribute that is None or a number (or an array) v is <<>> or <<v>>. *)
(*  - a dict is a function; an insertion-ordered dict whose order is read   *)
(*    (a figure's arrange) is a sequence of records with unique keys.       *)
(*  - a handler is an operator from the program state (a record of the      *)
(*    objects' fields) to [p |-> the state it leaves, exc |-> the exception *)
(*    it raises or "ok"]; the state it leaves on an exception is the state  *)
(*    at the raise, as in Python.                                           *)
(***************************************************************************)
EXTENDS Integers, Sequences, FiniteSets, TLC

VARIABLES
    figs,           \* plotter2D.figs: figure name -> figure struct
    max_fig_num,    \* plotter2D._max_fig_num
    active_layer,   \* plotter2D.active_layer: <<>> (None) or <<figure, layer>>
    currFig,        \* plotter2D.currFig: "None" or a figure name
    mpl,            \* the render backend: axes objects and the artists on them
    subplot_lookup, \* plotter2D.subplot_lookup: axes -> (figure, layers, position)
    shown,          \* plotter2D.shown
    cb_axes,        \* diagnosticGUI.cb_axes
    RS_line,        \* diagnosticGUI.RS_line: the line selector, its axes and activity
    gui,            \* the other fields of the diagnosticGUI and the canvas callbacks
    tracker,        \* the tracker_manager: tracked and all_figs
    call,           \* the call or event being dispatched: its operation and arguments
    ret,            \* "idle", "pending" (dispatched, the handler has not run), or the
                    \* outcome of the handler: "ok" or the exception it raised
    synced          \* history: the handler that ran last was a render pass without
                    \* rebuild that returned normally

sceneVars == <<figs, max_fig_num, active_layer, currFig, mpl, subplot_lookup, shown,
               cb_axes, RS_line, gui, tracker>>

None == "None"

\* subplot=None
NoSubplot == <<>>

(***************************************************************************)
(* Bounds of the model.                                                    *)
(***************************************************************************)
MaxEntries == 2          \* data entries the registry holds at most
MaxObjs == 6             \* render objects (axes, artists) a run may create
MaxLines == 1            \* lines of interest a run may create
MaxCids == 2             \* canvas connections a run may make
MaxTime == 4             \* the sample times and the times asked for go up to this
MaxTracks == 3           \* quantities a run may register with the tracker
MaxCalls == 3            \* calls the dynamic functions receive in a run
MaxRow == 3              \* points a stored sequence may grow to
StepLen == 12            \* samples of the longer array of times

(***************************************************************************)
(* Program constants.                                                      *)
(***************************************************************************)
PaletteSize == 7         \* len(plotter2D.colors)

colors == <<"b", "g", "r", "c", "m", "k", "y">>

\* color + '-' for each color of the palette (addLayer: style = color+line)
ColorLineStyle(c) ==
    CASE c = "b" -> "b-" [] c = "g" -> "g-" [] c = "r" -> "r-" [] c = "c" -> "c-"
      [] c = "m" -> "m-" [] c = "k" -> "k-" [] c = "y" -> "y-"

(***************************************************************************)
(* Python data values handed to addData: rank 0 is a scalar, rank 1 a flat  *)
(* sequence of numbers (rows[1]), rank 2 a sequence of sequences (rows).    *)
(***************************************************************************)
Scalar(v) == [rank |-> 0, rows |-> << <<v>> >>]
Flat(s) == [rank |-> 1, rows |-> <<s>>]
Nested(rs) == [rank |-> 2, rows |-> rs]

IsRagged(d) ==
    /\ d.rank = 2
    /\ \E i, j \in 1..Len(d.rows) : Len(d.rows[i]) # Len(d.rows[j])

\* np.shape(data) of a value numpy can cast to a regular array
np_shape(d) ==
    CASE d.rank = 0 -> <<>>
      [] d.rank = 1 -> <<Len(d.rows[1])>>
      [] d.rank = 2 /\ Len(d.rows) = 0 -> <<0>>
      [] d.rank = 2 /\ Len(d.rows) > 0 -> <<Len(d.rows), Len(d.rows[1])>>

\* The outcomes np.shape can have: a ragged nested sequence is cast to a
\* one-dimensional object array by older numpy builds and refused (ValueError,
\* which addData's bare except turns into TypeError) by newer ones.
np_shape_outcomes(d) ==
    IF IsRagged(d)
    THEN {[exc |-> "ok", size |-> <<Len(d.rows)>>], [exc |-> "TypeError", size |-> <<>>]}
    ELSE {[exc |-> "ok", size |-> np_shape(d)]}

(***************************************************************************)
(* The program state handed to the handlers.                               *)
(***************************************************************************)
PS == [figs |-> figs, max_fig_num |-> max_fig_num, active_layer |-> active_layer,
       currFig |-> currFig, mpl |-> mpl, subplot_lookup |-> subplot_lookup,
       shown |-> shown, cb_axes |-> cb_axes, RS_line |-> RS_line, gui |-> gui,
       tracker |-> tracker]

\* d[key] = val on an insertion-ordered dict whose keys are the sequence `keys`
PutKey(keys, key) == IF \E i \in 1..Len(keys) : keys[i] = key THEN keys ELSE Append(keys, key)

Ok(p) == [p |-> p, exc |-> "ok"]
Raise(p, e) == [p |-> p, exc |-> e]

\* plotter2D._resolveFig: the figure name, or ValueError
resolveFig(p, figure) ==
    IF figure = None /\ p.currFig = None THEN [exc |-> "ValueError", figure |-> None]
    ELSE LET f == IF figure = None THEN p.currFig ELSE figure
         IN  IF f \in DOMAIN p.figs THEN [exc |-> "ok", figure |-> f]
             ELSE [exc |-> "ValueError", figure |-> f]

\* plotter2D._resolveLayer: whether the layer struct exists (KeyError if not)
resolveLayer(p, figure, layer) ==
    IF figure \notin DOMAIN p.figs THEN "KeyError"
    ELSE IF layer \notin DOMAIN p.figs[figure].layers THEN "KeyError"
    ELSE "ok"

\* a set_active_layer that pairs the layer with the current figure
set_active_layer_current(p, layer, figure) ==
    LET rf == resolveFig(p, figure)
    IN  IF rf.exc # "ok" THEN Raise(p, rf.exc)
        ELSE IF layer \notin DOMAIN p.figs[rf.figure].layers THEN Raise(p, "KeyError")
        ELSE Ok([p EXCEPT !.active_layer = <<p.currFig, layer>>])

\* plotter2D.set_active_layer
set_active_layer(p, layer, figure) ==
    LET rf == resolveFig(p, figure)
    IN  IF rf.exc # "ok" THEN Raise(p, rf.exc)
        ELSE IF layer \notin DOMAIN p.figs[rf.figure].layers THEN Raise(p, "KeyError")
        ELSE Ok([p EXCEPT !.active_layer = <<rf.figure, layer>>])

\* an addFig that makes the label current before it looks for a duplicate
addFig_early(p, label, domain, display) ==
    IF domain = None THEN Raise(p, "ValueError")
    ELSE IF label \in DOMAIN p.figs THEN Raise([p EXCEPT !.currFig = label], "KeyError")
    ELSE LET figAttr == [display |-> display,
                         fignum |-> p.max_fig_num + 1,
                         layers |-> <<>>,
                         layer_keys |-> <<>>,
                         shape |-> <<1, 1>>,
                         arranged |-> FALSE,
                         arrange |-> <<>>,
                         domain |-> domain]
         IN  Ok([p EXCEPT !.currFig = label,
                          !.max_fig_num = p.max_fig_num + 1,
                          !.figs = (label :> figAttr) @@ p.figs])

\* plotter2D.addFig
addFig(p, label, domain, display) ==
    IF domain = None THEN Raise(p, "ValueError")
    ELSE IF label \in DOMAIN p.figs THEN Raise(p, "KeyError")
    ELSE LET figAttr == [display |-> display,
                         fignum |-> p.max_fig_num + 1,
                         layers |-> <<>>,
                         layer_keys |-> <<>>,    \* insertion order of layers
                         shape |-> <<1, 1>>,
                         arranged |-> FALSE,     \* arrange = [] until arrangeFig
                         arrange |-> <<>>,
                         domain |-> domain]
         IN  Ok([p EXCEPT !.currFig = label,
                          !.max_fig_num = p.max_fig_num + 1,
                          !.figs = (label :> figAttr) @@ p.figs])

\* plotter2D.setFig(label) with no keyword arguments
setFig(p, label) ==
    IF label = None /\ p.currFig = None THEN Raise(p, "ValueError")
    ELSE IF label = None THEN Ok(p)
    ELSE IF label \notin DOMAIN p.figs THEN Raise(p, "KeyError")
    ELSE Ok([p EXCEPT !.currFig = label])

\* the layer struct addLayer builds before the keyword arguments are applied
LayerDefaults(nlayers) ==
    [data |-> <<>>,
     data_keys |-> <<>>,         \* insertion order of data
     display |-> TRUE,
     zindex |-> nlayers + 1,
     style |-> [kind |-> "str", val |-> ColorLineStyle(colors[(nlayers % PaletteSize) + 1])],
     scale |-> None,
     kind |-> "data",
     dynamic |-> FALSE,
     trajs |-> {},
     axes_vars |-> <<>>,
     handles |-> <<>>]

\* the keys of a layer struct
LayerProps == {"data", "display", "zindex", "style", "scale", "kind", "dynamic", "trajs",
               "axes_vars", "handles"}

\* an addLayer that stores the layer before it checks the keywords
addLayer_stored_first(p, layer_name, figure, set_to_active, kwargs) ==
    LET rf == resolveFig(p, figure)
    IN  IF rf.exc # "ok" THEN Raise(p, rf.exc)
        ELSE LET f == rf.figure
                 n == Cardinality(DOMAIN p.figs[f].layers)
                 dflt == LayerDefaults(n)
                 p0 == [p EXCEPT !.figs[f].layers = (layer_name :> dflt) @@ @,
                                 !.figs[f].layer_keys = Append(@, layer_name)]
             IN  IF layer_name \in DOMAIN p.figs[f].layers THEN Raise(p, "KeyError")
                 ELSE IF ~(DOMAIN kwargs \subseteq LayerProps) THEN Raise(p0, "KeyError")
                 ELSE LET layAttrs == [k \in DOMAIN dflt |->
                                          IF k \in DOMAIN kwargs THEN kwargs[k] ELSE dflt[k]]
                          p1 == [p EXCEPT !.figs[f].layers = (layer_name :> layAttrs) @@ @,
                                          !.figs[f].layer_keys = Append(@, layer_name)]
                      IN  IF set_to_active THEN set_active_layer(p1, layer_name, f)
                          ELSE Ok(p1)

\* plotter2D.addLayer; kwargs is a function from keyword to value
addLayer(p, layer_name, figure, set_to_active, kwargs) ==
    LET rf == resolveFig(p, figure)
    IN  IF rf.exc # "ok" THEN Raise(p, rf.exc)
        ELSE LET f == rf.figure
                 n == Cardinality(DOMAIN p.figs[f].layers)
                 dflt == LayerDefaults(n)
             IN  IF layer_name \in DOMAIN p.figs[f].layers THEN Raise(p, "KeyError")
                 ELSE IF ~(DOMAIN kwargs \subseteq LayerProps) THEN Raise(p, "KeyError")
                 ELSE LET layAttrs == [k \in DOMAIN dflt |->
                                          IF k \in DOMAIN kwargs THEN kwargs[k] ELSE dflt[k]]
                          p1 == [p EXCEPT !.figs[f].layers = (layer_name :> layAttrs) @@ @,
                                          !.figs[f].layer_keys = Append(@, layer_name)]
                      IN  IF set_to_active THEN set_active_layer(p1, layer_name, f)
                          ELSE Ok(p1)

RECURSIVE copy_layers(_, _, _)
\* copyFig: the loop goes on after a layer unless addLayer raised
copy_layers_next(r, oldFig, layers) ==
    IF r.exc # "ok" THEN r ELSE copy_layers(r.p, oldFig, layers)

\* copyFig: self.addLayer(layer, display=..., zindex=..., style=...) for every
\* layer of the old figure; the layer goes to the current figure
copy_layers(p, oldFig, layers) ==
    IF layers = <<>> THEN Ok(p)
    ELSE copy_layers_next(
            addLayer(p, Head(layers), None, TRUE,
                     ("display" :> p.figs[oldFig].layers[Head(layers)].display)
                     @@ ("zindex" :> p.figs[oldFig].layers[Head(layers)].zindex)
                     @@ ("style" :> p.figs[oldFig].layers[Head(layers)].style)),
            oldFig, Tail(layers))

\* plotter2D.copyFig; the copy is given no domain
copyFig(p, newFig, oldFig) ==
    IF newFig \in DOMAIN p.figs THEN Raise(p, "KeyError")
    \* self.currFig = newFig comes before self.figs[oldFig]
    ELSE IF oldFig \notin DOMAIN p.figs THEN Raise([p EXCEPT !.currFig = newFig], "KeyError")
    ELSE LET figAttr == [display |-> p.figs[oldFig].display,
                         fignum |-> p.max_fig_num + 1,
                         layers |-> <<>>,
                         layer_keys |-> <<>>,
                         shape |-> <<1, 1>>,
                         arranged |-> FALSE,
                         arrange |-> <<>>,
                         domain |-> "absent"]
         IN  copy_layers([p EXCEPT !.currFig = newFig,
                                   !.max_fig_num = p.max_fig_num + 1,
                                   !.figs = (newFig :> figAttr) @@ p.figs],
                         oldFig, p.figs[oldFig].layer_keys)

\* clearFigData: layers[layer].data = {} for every layer of the figure
clear_data(p, figure_name) ==
    [p EXCEPT !.figs[figure_name].layers =
        [l \in DOMAIN @ |-> [@[l] EXCEPT !.data = <<>>, !.data_keys = <<>>]]]

\* plotter2D.clearFigData
clearFigData(p, figure_name) ==
    IF figure_name \notin DOMAIN p.figs THEN Ok(p)
    \* self.active_layer[0] of None
    ELSE IF p.active_layer = <<>> THEN Raise(clear_data(p, figure_name), "TypeError")
    ELSE Ok([clear_data(p, figure_name) EXCEPT
                !.active_layer = IF figure_name = p.active_layer[1] THEN <<>> ELSE @,
                !.currFig = IF p.currFig = figure_name THEN None ELSE @])

\* plotter2D.clean
clean(p) ==
    Ok([p EXCEPT !.figs = <<>>, !.max_fig_num = 0, !.active_layer = <<>>,
                 !.subplot_lookup = <<>>, !.currFig = None, !.shown = FALSE])


(***************************************************************************)
(* Data entries.                                                           *)
(***************************************************************************)
\* the names fovea.diagnostics.get_unique_name hands out, in order
AutoNames == <<"u1", "u2", "u3", "u4", "u5">>

\* fovea.diagnostics.get_unique_name (not under src/): a name unique in the layer
get_unique_name(d) ==
    LET free == {i \in 1..Len(AutoNames) : AutoNames[i] \notin DOMAIN d}
    IN  AutoNames[CHOOSE i \in free : \A j \in free : i <= j]

\* whether PyDSTool's numeric_to_traj([data[1]], indepvar=data[0]) builds a
\* trajectory: data[1] and data[0] must exist and be sequences of one length;
\* everything else ends in the ValueError / TypeError that _updateTraj swallows
numeric_to_traj_ok(data) ==
    /\ data.rank = 2
    /\ Len(data.rows) >= 2
    /\ Len(data.rows[1]) = Len(data.rows[2])
    /\ Len(data.rows[1]) >= 1

\* the keys of the dict stored for an entry: what addData, addText (with
\* use_axis_coords) or addPatch (with the patch, radius and color) put there,
\* or the dict setData was handed
EntryKeys(e) ==
    CASE e.via = "setData" -> DOMAIN e.fields
      [] e.via = "addData" -> {"data", "style", "display", "subplot"}
      [] e.via = "addText" -> {"data", "text", "display", "style", "subplot",
                               "use_axis_coords"}
      [] e.via = "addPatch" -> {"data", "patch", "display", "subplot", "radius", "color"}

\* dstruct['data']
EntryData(e) == IF e.via = "setData" THEN e.fields.data ELSE e.data

\* _updateTraj: the position in the layer's data of the first entry whose dict
\* has no 'data' key (0 if every entry has one)
first_without_data(lay) ==
    LET bad == {i \in 1..Len(lay.data_keys) :
                   "data" \notin EntryKeys(lay.data[lay.data_keys[i]])}
    IN  IF bad = {} THEN 0 ELSE CHOOSE i \in bad : \A j \in bad : i <= j

\* _updateTraj: the loop over the entries, which stops with the KeyError of
\* dstruct['data'] at position k (k = 0: it runs to the end)
update_trajs(p, figure_name, layer_name, lay, k) ==
    LET upto == IF k = 0 THEN Len(lay.data_keys) ELSE k - 1
        made == {lay.data_keys[i] : i \in {j \in 1..upto :
                    numeric_to_traj_ok(EntryData(lay.data[lay.data_keys[j]]))}}
        q == [p EXCEPT !.figs[figure_name].layers[layer_name].trajs = @ \cup made]
    IN  IF k = 0 THEN Ok(q) ELSE Raise(q, "KeyError")

\* plotter2D._updateTraj
updateTraj(p, figure_name, layer_name) ==
    IF figure_name \notin DOMAIN p.figs THEN Raise(p, "KeyError")
    ELSE IF layer_name \notin DOMAIN p.figs[figure_name].layers THEN Raise(p, "KeyError")
    ELSE update_trajs(p, figure_name, layer_name, p.figs[figure_name].layers[layer_name],
                      first_without_data(p.figs[figure_name].layers[layer_name]))

\* style=None; a style is otherwise a string (kind "str") or a dict (kind "dict")
NoStyle == [kind |-> "none", val |-> None]

\* an entry whose display flag is always True
DataEntry_shown(data, style, display, subplot) ==
    [via |-> "addData", data |-> data, style |-> style, display |-> TRUE,
     subplot |-> subplot, text |-> None]

\* the dict addData stores for an entry
DataEntry(data, style, display, subplot) ==
    [via |-> "addData", data |-> data, style |-> style, display |-> display,
     subplot |-> subplot, text |-> None]

\* a duplicate-name check that force does not switch off
name_exists_forced(d, name, force) == name \in DOMAIN d

\* the duplicate-name check of addData (and addText, addPatch)
name_exists(d, name, force) == name \in DOMAIN d /\ ~force

\* the shape check of addData: size[0] not in (2,3), IndexError passed over
bad_size(size) == Len(size) > 0 /\ size[1] \notin {2, 3}

\* plotter2D.addData; sz is the outcome of np.shape(data)
addData(p, data, sz, figure, layer, subplot, style, name, display, force) ==
    IF sz.exc # "ok" THEN Raise(p, "TypeError")
    ELSE IF bad_size(sz.size) THEN Raise(p, "ValueError")
    ELSE
    LET rf == resolveFig(p, figure)
    IN  IF rf.exc # "ok" THEN Raise(p, rf.exc)
        ELSE IF layer = None /\ p.active_layer = <<>> THEN Raise(p, "TypeError")
        ELSE IF layer # None /\ resolveLayer(p, rf.figure, layer) # "ok" THEN Raise(p, "KeyError")
        ELSE
        LET \* the struct written to: active_layer_structs[1], or the resolved layer
            tf == IF layer = None THEN p.active_layer[1] ELSE rf.figure
            tl == IF layer = None THEN p.active_layer[2] ELSE layer
            layer_struct == p.figs[tf].layers[tl]
            st == IF style = NoStyle THEN layer_struct.style ELSE style
            d == layer_struct.data
        IN  IF name_exists(d, name, force) THEN Raise(p, "KeyError")
            ELSE LET nm == IF name = None THEN get_unique_name(d) ELSE name
                     p1 == [p EXCEPT !.figs[tf].layers[tl].data =
                                (nm :> DataEntry(data, st, display, subplot)) @@ @,
                                     !.figs[tf].layers[tl].data_keys = PutKey(@, nm)]
                 IN  updateTraj(p1, rf.figure, tl)

\* the dict addText stores for an entry
TextEntry(x, y, text, display, style, subplot) ==
    [via |-> "addText", data |-> Flat(<<x, y>>), style |-> style, display |-> display,
     subplot |-> subplot, text |-> text]

\* plotter2D.addText
addText(p, x, y, text, name, layer, subplot, figure, display, style, force) ==
    LET rf == resolveFig(p, figure)
    IN  IF rf.exc # "ok" THEN Raise(p, rf.exc)
        ELSE IF layer = None /\ p.active_layer = <<>> THEN Raise(p, "TypeError")
        ELSE IF layer # None /\ resolveLayer(p, rf.figure, layer) # "ok" THEN Raise(p, "KeyError")
        ELSE
        LET tf == IF layer = None THEN p.active_layer[1] ELSE rf.figure
            tl == IF layer = None THEN p.active_layer[2] ELSE layer
            layer_struct == p.figs[tf].layers[tl]
            d == layer_struct.data
        IN  IF layer_struct.kind # "text" THEN Raise(p, "ValueError")
            ELSE IF name_exists(d, name, force) THEN Raise(p, "KeyError")
            ELSE LET nm == IF name = None THEN get_unique_name(d) ELSE name
                 IN  Ok([p EXCEPT !.figs[tf].layers[tl].data =
                                (nm :> TextEntry(x, y, text, display, style, subplot)) @@ @,
                                  !.figs[tf].layers[tl].data_keys = PutKey(@, nm)])

\* the dict addPatch stores for an entry (with the radius and color keywords,
\* one radius per point); it has no style key
PatchEntry(data, display, subplot) ==
    [via |-> "addPatch", data |-> data, style |-> NoStyle, display |-> display,
     subplot |-> subplot, text |-> None]

\* the shape check of addPatch: size[0] != 2, IndexError passed over
bad_patch_size(size) == Len(size) > 0 /\ size[1] # 2

\* plotter2D.addPatch; sz is the outcome of np.shape(data)
addPatch(p, data, sz, figure, layer, subplot, name, display, force) ==
    IF sz.exc # "ok" THEN Raise(p, "TypeError")
    ELSE IF bad_patch_size(sz.size) THEN Raise(p, "ValueError")
    ELSE
    LET rf == resolveFig(p, figure)
    IN  IF rf.exc # "ok" THEN Raise(p, rf.exc)
        ELSE IF layer = None /\ p.active_layer = <<>> THEN Raise(p, "TypeError")
        ELSE IF layer # None /\ resolveLayer(p, rf.figure, layer) # "ok" THEN Raise(p, "KeyError")
        ELSE
        LET tf == IF layer = None THEN p.active_layer[1] ELSE rf.figure
            tl == IF layer = None THEN p.active_layer[2] ELSE layer
            layer_struct == p.figs[tf].layers[tl]
            d == layer_struct.data
        IN  IF layer_struct.kind # "patch" THEN Raise(p, "ValueError")
            ELSE IF name_exists(d, name, force) THEN Raise(p, "KeyError")
            ELSE LET nm == IF name = None THEN get_unique_name(d) ELSE name
                 IN  Ok([p EXCEPT !.figs[tf].layers[tl].data =
                                (nm :> PatchEntry(data, display, subplot)) @@ @,
                                  !.figs[tf].layers[tl].data_keys = PutKey(@, nm)])

(***************************************************************************)
(* Visibility.                                                             *)
(***************************************************************************)
\* names arguments: None, a singleton string, or a list of strings
NoNames == [kind |-> "none", val |-> <<>>]
StrName(n) == [kind |-> "str", val |-> <<n>>]
ListNames(ns) == [kind |-> "list", val |-> ns]

\* plotter2D.toggleDisplay
toggleDisplay(p, names, layer, figure) ==
    LET rf == resolveFig(p, figure)
    IN  IF rf.exc # "ok" THEN Raise(p, rf.exc)
        ELSE LET f == rf.figure
             IN  IF names.kind = "none"
                 THEN IF layer = None
                      THEN Ok([p EXCEPT !.figs[f].display = ~@])
                      ELSE IF resolveLayer(p, f, layer) # "ok" THEN Raise(p, "KeyError")
                      ELSE Ok([p EXCEPT !.figs[f].layers[layer].display = ~@])
                 ELSE IF resolveLayer(p, f, layer) # "ok" THEN Raise(p, "KeyError")
                 \* names = [name]: `name` is not defined in this method
                 ELSE IF names.kind = "str" THEN Raise(p, "NameError")
                 \* lay.data[name]: `lay` is not defined in this method
                 ELSE IF Len(names.val) > 0 THEN Raise(p, "NameError")
                 ELSE Ok(p)

RECURSIVE set_flags(_, _, _, _, _)
\* the loop of setDisplay: for name in names: lay.data[name]['display'] = display
set_flags(p, f, layer, ns, display) ==
    IF ns = <<>> THEN Ok(p)
    ELSE IF Head(ns) \notin DOMAIN p.figs[f].layers[layer].data THEN Raise(p, "KeyError")
    ELSE set_flags([p EXCEPT !.figs[f].layers[layer].data[Head(ns)].display = display],
                   f, layer, Tail(ns), display)

\* plotter2D.setDisplay
setDisplay(p, names, display, layer, figure) ==
    LET rf == resolveFig(p, figure)
    IN  IF rf.exc # "ok" THEN Raise(p, rf.exc)
        ELSE IF layer \notin DOMAIN p.figs[rf.figure].layers THEN Raise(p, "ValueError")
        \* names = [name]: `name` is not defined in this method
        ELSE IF names.kind = "str" THEN Raise(p, "NameError")
        ELSE set_flags(p, rf.figure, layer, names.val, display)

(***************************************************************************)
(* Changes to stored entries and layers.                                   *)
(***************************************************************************)
\* a point handed to appendData: a Point2D, or any sequence
APoint(x, y) == [kind |-> "Point2D", val |-> <<x, y>>]
ASeq(sq) == [kind |-> "seq", val |-> sq]

\* appendData: x = data[0]; y = data[1]; assert len(data) == 2, under a bare
\* except that turns every failure into TypeError
point_ok(data) == data.kind = "Point2D" \/ Len(data.val) = 2

\* appendData: dataset['data'][0].append(x); dataset['data'][1].append(y) on an
\* entry of the layer; the first append stays done if the second one fails
append_xy(p, f, layer, name, x, y) ==
    LET e == p.figs[f].layers[layer].data[name]
        d == EntryData(e)
        put(rows) == IF e.via = "setData"
                     THEN [p EXCEPT !.figs[f].layers[layer].data[name].fields.data.rows = rows]
                     ELSE [p EXCEPT !.figs[f].layers[layer].data[name].data.rows = rows]
    IN  IF "data" \notin EntryKeys(e) THEN Raise(p, "KeyError")
        \* a number cannot be indexed
        ELSE IF d.rank = 0 THEN Raise(p, "TypeError")
        \* data[0] of a flat sequence is a number, which has no append
        ELSE IF d.rank = 1
             THEN IF Len(d.rows[1]) = 0 THEN Raise(p, "IndexError")
                  ELSE Raise(p, "AttributeError")
        ELSE IF Len(d.rows) = 0 THEN Raise(p, "IndexError")
        ELSE IF Len(d.rows) = 1
             THEN Raise(put([d.rows EXCEPT ![1] = Append(@, x)]), "IndexError")
        ELSE Ok(put([d.rows EXCEPT ![1] = Append(@, x), ![2] = Append(@, y)]))

\* appendData: the trajectory refresh follows the two appends; it is called
\* as self._updateTraj(layer, figure)
append_refresh(r, layer, figure) ==
    IF r.exc # "ok" THEN r ELSE updateTraj(r.p, layer, figure)

\* plotter2D.appendData
appendData(p, data, layer, name, figure) ==
    LET rf == resolveFig(p, figure)
    IN  IF rf.exc # "ok" THEN Raise(p, rf.exc)
        ELSE IF layer \notin DOMAIN p.figs[rf.figure].layers THEN Raise(p, "ValueError")
        ELSE IF name \notin DOMAIN p.figs[rf.figure].layers[layer].data
             THEN Raise(p, "ValueError")
        ELSE IF ~point_ok(data) THEN Raise(p, "TypeError")
        ELSE append_refresh(append_xy(p, rf.figure, layer, name, data.val[1], data.val[2]),
                            layer, rf.figure)

\* whether a render handle is a text artist (it was drawn with a text) or a line
is_text_artist(h) == h.text # None

\* plotter2D.setPoint: only the handle is given the point
setPoint(p, name, pt, layer, figure) ==
    LET rf == resolveFig(p, figure)
    IN  IF rf.exc # "ok" THEN Raise(p, rf.exc)
        ELSE IF layer \notin DOMAIN p.figs[rf.figure].layers THEN Raise(p, "KeyError")
        ELSE IF name \notin DOMAIN p.figs[rf.figure].layers[layer].data
             THEN Raise(p, "KeyError")
        ELSE IF name \notin DOMAIN p.figs[rf.figure].layers[layer].handles THEN Ok(p)
        \* a text artist has no set_data
        ELSE IF is_text_artist(p.figs[rf.figure].layers[layer].handles[name])
             THEN Raise(p, "AttributeError")
        ELSE Ok([p EXCEPT !.figs[rf.figure].layers[layer].handles[name].data = pt])

\* setText: text_struct['text'] = text on the dict of the entry
store_text(p, f, layer, name, text) ==
    IF p.figs[f].layers[layer].data[name].via = "setData"
    THEN [p EXCEPT !.figs[f].layers[layer].data[name].fields =
                       ("text" :> text) @@ @]
    ELSE [p EXCEPT !.figs[f].layers[layer].data[name].text = text]

\* setText: lay.handles[name].set_text(text), which a line artist does not have
push_text(p, f, layer, name, text) ==
    IF name \notin DOMAIN p.figs[f].layers[layer].handles THEN Ok(p)
    ELSE IF ~is_text_artist(p.figs[f].layers[layer].handles[name])
         THEN Raise(p, "AttributeError")
    ELSE Ok([p EXCEPT !.figs[f].layers[layer].handles[name].text = text])

\* setText: text_struct['data'] = pos when a position is given (pos = <<>>: None)
store_pos(r, f, layer, name, pos) ==
    IF r.exc # "ok" \/ pos = <<>> THEN r
    ELSE IF r.p.figs[f].layers[layer].data[name].via = "setData"
    THEN Ok([r.p EXCEPT !.figs[f].layers[layer].data[name].fields =
                            ("data" :> pos[1]) @@ @])
    ELSE Ok([r.p EXCEPT !.figs[f].layers[layer].data[name].data = pos[1]])

\* plotter2D.setText
setText(p, name, text, layer, pos, figure) ==
    LET rf == resolveFig(p, figure)
    IN  IF rf.exc # "ok" THEN Raise(p, rf.exc)
        ELSE IF layer \notin DOMAIN p.figs[rf.figure].layers THEN Raise(p, "KeyError")
        ELSE IF name \notin DOMAIN p.figs[rf.figure].layers[layer].data
             THEN Raise(p, "KeyError")
        ELSE store_pos(push_text(store_text(p, rf.figure, layer, name, text),
                                 rf.figure, layer, name, text),
                       rf.figure, layer, name, pos)

\* the dict setData is handed for an entry becomes the entry's dict
GivenEntry(fields) == [via |-> "setData", fields |-> fields]

RECURSIVE update_data(_, _, _, _)
\* setData: layer_struct['data'].update(kwargs['data']); upd is the dict in
\* insertion order, a sequence of <<name, fields>>
update_data(p, f, layer, upd) ==
    IF upd = <<>> THEN p
    ELSE update_data([p EXCEPT !.figs[f].layers[layer].data =
                                   (upd[1][1] :> GivenEntry(upd[1][2])) @@ @,
                               !.figs[f].layers[layer].data_keys = PutKey(@, upd[1][1])],
                     f, layer, Tail(upd))

RECURSIVE push_data(_, _, _, _)
\* setData: obj.set_data(objdata['data']) on the handle of every entry named
\* in kwargs['data'] that has one
push_data(p, f, layer, upd) ==
    IF upd = <<>> THEN Ok(p)
    ELSE IF upd[1][1] \notin DOMAIN p.figs[f].layers[layer].handles
         THEN push_data(p, f, layer, Tail(upd))
    ELSE IF "data" \notin DOMAIN upd[1][2] THEN Raise(p, "KeyError")
    ELSE IF is_text_artist(p.figs[f].layers[layer].handles[upd[1][1]])
         THEN Raise(p, "AttributeError")
    ELSE push_data([p EXCEPT !.figs[f].layers[layer].handles[upd[1][1]].data =
                                 upd[1][2].data],
                   f, layer, Tail(upd))

\* the value of the data keyword among the keyword arguments kwargs, a sequence
\* of <<keyword, value>> (<<>> if the keyword is not given)
data_kwarg(kwargs) ==
    LET at == {i \in 1..Len(kwargs) : kwargs[i][1] = "data"}
    IN  IF at = {} THEN <<>> ELSE kwargs[CHOOSE i \in at : TRUE][2]

RECURSIVE set_kwargs(_, _, _, _, _)
RECURSIVE set_kwargs_next(_, _, _, _, _)
\* setData: the loop over the keyword arguments; kws is what is left of them.
\* The data keyword holds a dict and is merged into the layer's; the other
\* keywords passed here (display, kind, zindex, ...) hold plain values.
set_kwargs(p, f, layer, kws, kwargs) ==
    IF kws = <<>> THEN Ok(p)
    ELSE IF kws[1][1] \notin LayerProps THEN Raise(p, "KeyError")
    ELSE IF kws[1][1] = "data"
         THEN set_kwargs_next(push_data(update_data(p, f, layer, kws[1][2]), f, layer,
                                        data_kwarg(kwargs)),
                              f, layer, Tail(kws), kwargs)
    \* a value without an update method is assigned
    ELSE set_kwargs([p EXCEPT !.figs[f].layers[layer][kws[1][1]] = kws[1][2]],
                    f, layer, Tail(kws), kwargs)

set_kwargs_next(r, f, layer, kws, kwargs) ==
    IF r.exc # "ok" THEN r ELSE set_kwargs(r.p, f, layer, kws, kwargs)

\* setData: the trajectory refresh that ends it
set_refresh(r, figure, layer) ==
    IF r.exc # "ok" THEN r ELSE updateTraj(r.p, figure, layer)

\* plotter2D.setData; the keyword arguments are display, kind and the like
\* with a plain value, or data with a dict of entry dicts
setData(p, layer, figure, kwargs) ==
    LET rf == resolveFig(p, figure)
    IN  IF rf.exc # "ok" THEN Raise(p, rf.exc)
        ELSE IF layer \notin DOMAIN p.figs[rf.figure].layers THEN Raise(p, "KeyError")
        ELSE set_refresh(set_kwargs(p, rf.figure, layer, kwargs, kwargs), rf.figure, layer)

RECURSIVE set_props(_, _, _, _)
\* setLayer: the loop over the keyword arguments
set_props(p, f, label, kws) ==
    IF kws = <<>> THEN Ok(p)
    ELSE IF kws[1][1] \notin LayerProps THEN Raise(p, "KeyError")
    ELSE set_props([p EXCEPT !.figs[f].layers[label][kws[1][1]] = kws[1][2]],
                   f, label, Tail(kws))

\* plotter2D.setLayer
setLayer(p, label, figure, kwargs) ==
    LET rf == resolveFig(p, figure)
    IN  IF rf.exc # "ok" THEN Raise(p, rf.exc)
        ELSE IF label \notin DOMAIN p.figs[rf.figure].layers THEN Raise(p, "KeyError")
        ELSE set_props(p, rf.figure, label, kwargs)

(***************************************************************************)
(* Sub-plot arrangement.  A position code 'rc' is the pair <<r, c>>.        *)
(***************************************************************************)
\* the layers of a sub-plot spec: a list of names, the wildcard '*', or one name
LayerList(ls) == [kind |-> "list", val |-> ls]
AllLayers == [kind |-> "star", val |-> <<>>]
OneLayer(l) == [kind |-> "str", val |-> <<l>>]

\* a sub-plot spec as the caller passes it; axes_obj = 0: not rendered yet;
\* scale and projection are "absent" when the spec has no such key
SubplotSpec(pos, layers, axes_vars, scale) ==
    [pos |-> pos, name |-> "sub", layers |-> layers, axes_vars |-> axes_vars,
     scale |-> scale, axes_obj |-> 0, callbacks |-> FALSE, projection |-> "absent"]

\* the position check of arrangeFig
bad_position(pos, shape) == pos[1] * pos[2] > shape[1] * shape[2]

\* an arrangeFig that stores the shape before it validates the sub-plots
arrangeFig_eager(p, shape, arrPlots, figure) ==
    LET rf == resolveFig(p, figure)
    IN  IF rf.exc # "ok" THEN Raise(p, rf.exc)
        ELSE IF Len(shape) # 2 THEN Raise(p, "ValueError")
        ELSE IF \E i \in 1..Len(arrPlots) :
                   \/ bad_position(arrPlots[i].pos, shape)
                   \/ Len(arrPlots[i].axes_vars) > 3
             THEN Raise([p EXCEPT !.figs[rf.figure].shape = shape], "ValueError")
        ELSE Ok([p EXCEPT !.figs[rf.figure].shape = shape,
                          !.figs[rf.figure].arranged = TRUE,
                          !.figs[rf.figure].arrange = arrPlots])

\* plotter2D.arrangeFig; arrPlots is the dict in insertion order
arrangeFig(p, shape, arrPlots, figure) ==
    LET rf == resolveFig(p, figure)
    IN  IF rf.exc # "ok" THEN Raise(p, rf.exc)
        ELSE IF Len(shape) # 2 THEN Raise(p, "ValueError")
        ELSE IF \E i \in 1..Len(arrPlots) :
                   \/ bad_position(arrPlots[i].pos, shape)
                   \/ Len(arrPlots[i].axes_vars) > 3
             THEN Raise(p, "ValueError")
        ELSE Ok([p EXCEPT !.figs[rf.figure].shape = shape,
                          !.figs[rf.figure].arranged = TRUE,
                          !.figs[rf.figure].arrange = arrPlots])


(***************************************************************************)
(* Render synchronization.  The backend state mpl holds every axes object  *)
(* made so far (its figure number, whether the figure still holds it, and   *)
(* the number of artists drawn on it) and the next fresh object id.  A      *)
(* render handle is the artist a draw call returned: its id, its axes, its  *)
(* visibility and the geometry or text it was drawn with.  View limits are  *)
(* not part of the model.                                                   *)
(***************************************************************************)
\* layer names that are proper substrings of layer names (Python's str `in` str)
ProperSubstrings == {<<"L", "LT">>}

IsSubstring(a, b) == a = b \/ <<a, b>> \in ProperSubstrings

InSeq(x, sq) == \E i \in 1..Len(sq) : sq[i] = x

\* `layer in dic['layers']`: list membership, or the substring test on a string
layer_in(layer, layers) ==
    CASE layers.kind = "list" -> InSeq(layer, layers.val)
      [] layers.kind = "str" -> IsSubstring(layer, layers.val[1])
      [] layers.kind = "star" -> layer = "*"

RECURSIVE listing(_, _)
\* the positions of the sub-plot specs of arr whose layers contain the layer
listing(arr, layer) ==
    IF arr = <<>> THEN <<>>
    ELSE (IF layer_in(layer, Head(arr).layers) THEN <<Head(arr).pos>> ELSE <<>>)
         \o listing(Tail(arr), layer)

\* whether the loop of _retrieveSubplots meets a spec with dic['layers'] is '*'
has_star(arr) == \E i \in 1..Len(arr) : arr[i].layers.kind = "star"

\* plotter2D._retrieveSubplots: reads the arrangement of the current figure
retrieveSubplots(p, layer) ==
    IF p.currFig \notin DOMAIN p.figs THEN [exc |-> "KeyError", subplots |-> <<>>]
    ELSE IF ~p.figs[p.currFig].arranged THEN [exc |-> "AttributeError", subplots |-> <<>>]
    ELSE LET arr == p.figs[p.currFig].arrange
         IN  IF has_star(arr)
             THEN [exc |-> "ok", subplots |-> [i \in 1..Len(arr) |-> arr[i].pos]]
             ELSE [exc |-> "ok", subplots |-> listing(arr, layer)]

\* index of the sub-plot spec at position pos in arr, 0 if none
spec_at(arr, pos) ==
    IF \E i \in 1..Len(arr) : arr[i].pos = pos
    THEN CHOOSE i \in 1..Len(arr) : arr[i].pos = pos
    ELSE 0

\* buildLayer: ax = self.figs[self.currFig].arrange[dstruct['subplot']]['axes_obj']
entry_axes(p, pos) ==
    IF p.currFig \notin DOMAIN p.figs THEN [exc |-> "KeyError", ax |-> 0]
    ELSE IF ~p.figs[p.currFig].arranged THEN [exc |-> "TypeError", ax |-> 0]
    ELSE LET arr == p.figs[p.currFig].arrange
             k == spec_at(arr, pos)
         IN  IF k = 0 THEN [exc |-> "KeyError", ax |-> 0]
             ELSE IF arr[k].axes_obj = 0 THEN [exc |-> "KeyError", ax |-> 0]
             ELSE [exc |-> "ok", ax |-> arr[k].axes_obj]

\* a draw call on axes ax: one more artist on it, whose id is p.mpl.next
add_artist(p, ax) ==
    [p EXCEPT !.mpl.axes[ax].arts = @ + 1, !.mpl.next = @ + 1]

Handle(id, ax, data, text) ==
    [id |-> id, ax |-> ax, visible |-> TRUE, data |-> data, text |-> text]

\* len(dstruct['data']); -1 stands for the TypeError of len() of a scalar
py_len(data) ==
    CASE data.rank = 0 -> -1
      [] data.rank = 1 -> Len(data.rows[1])
      [] data.rank = 2 -> Len(data.rows)

RECURSIVE add_patches(_, _, _)
\* buildLayer, kind 'patch': one ax.add_artist per point, no handle kept
add_patches(p, ax, n) ==
    IF n = 0 THEN p ELSE add_patches(add_artist(p, ax), ax, n - 1)

\* whether buildLayer makes a new render object for the entry
needs_handle(lay, dname, force) == dname \notin DOMAIN lay.handles \/ force

\* buildLayer: the draw of one visible entry on its axes, by layer kind
draw_entry(p, f, l, dname, ax, force) ==
    LET lay == p.figs[f].layers[l]
        dstruct == lay.data[dname]
        keep(q, text) == [q EXCEPT !.figs[f].layers[l].handles =
                             (dname :> Handle(p.mpl.next, ax, dstruct.data, text)) @@ @]
    IN  CASE lay.kind = "text" ->
                IF ~needs_handle(lay, dname, force) THEN Ok(p)
                \* dstruct['use_axis_coords'] exists only in what addText stored
                ELSE IF dstruct.via # "addText" THEN Raise(p, "KeyError")
                \* color = s[0] of a dict style
                ELSE IF dstruct.style.kind = "dict" THEN Raise(p, "KeyError")
                ELSE Ok(keep(add_artist(p, ax), dstruct.text))
          [] lay.kind = "patch" ->
                IF py_len(dstruct.data) = -1 THEN Raise(p, "TypeError")
                ELSE IF dstruct.data.rank = 1 THEN Raise(p, "TypeError")
                ELSE IF Len(dstruct.data.rows) = 0 THEN Raise(p, "IndexError")
                ELSE IF Len(dstruct.data.rows[1]) > 0 /\ dstruct.via # "addPatch"
                     THEN Raise(p, "KeyError")
                ELSE Ok(add_patches(p, ax, Len(dstruct.data.rows[1])))
          [] lay.kind = "data" ->
                IF ~needs_handle(lay, dname, force) THEN Ok(p)
                ELSE IF py_len(dstruct.data) = -1 THEN Raise(p, "TypeError")
                ELSE IF py_len(dstruct.data) \in {2, 3}
                     THEN IF IsRagged(dstruct.data) THEN Raise(p, "ValueError")
                          ELSE Ok(keep(add_artist(p, ax), None))
                ELSE Ok(p)
          [] OTHER -> Ok(p)

\* buildLayer: obj.set_visible(dstruct['display']) on the handle the entry has
set_visible(p, f, l, dname) ==
    IF dname \in DOMAIN p.figs[f].layers[l].handles
    THEN [p EXCEPT !.figs[f].layers[l].handles[dname].visible =
                       p.figs[f].layers[l].data[dname].display]
    ELSE p

\* buildLayer: the axes of the entry's sub-plot are looked up, then it is drawn
build_on(p, f, l, dname, force, ra) ==
    IF ra.exc # "ok" THEN Raise(p, ra.exc)
    ELSE draw_entry(p, f, l, dname, ra.ax, force)

\* buildLayer: dstruct['subplot'] = self._retrieveSubplots(layer_name)[0]
build_resolved(p, f, l, dname, force, rs) ==
    IF rs.exc # "ok" THEN Raise(p, rs.exc)
    ELSE IF rs.subplots = <<>> THEN Raise(p, "IndexError")
    ELSE build_on([p EXCEPT !.figs[f].layers[l].data[dname].subplot = rs.subplots[1]],
                  f, l, dname, force, entry_axes(p, rs.subplots[1]))

\* buildLayer: the body of the loop after the visibility of the handle is set
build_visible(p, f, l, dname, force) ==
    LET dstruct == p.figs[f].layers[l].data[dname]
    IN  IF ~dstruct.display THEN Ok(p)
        ELSE build_resolved(p, f, l, dname, force,
                            IF dstruct.subplot = NoSubplot THEN retrieveSubplots(p, l)
                            ELSE [exc |-> "ok", subplots |-> <<dstruct.subplot>>])

\* buildLayer: one pass of the loop over lay.data.items()
build_entry(p, f, l, dname, force) ==
    build_visible(set_visible(p, f, l, dname), f, l, dname, force)

RECURSIVE build_entries(_, _, _, _, _)
\* the loop goes on after an entry unless the entry raised
build_entries_next(r, f, l, names, force) ==
    IF r.exc # "ok" THEN r ELSE build_entries(r.p, f, l, names, force)

\* buildLayer: the loop over lay.data.items()
build_entries(p, f, l, names, force) ==
    IF names = <<>> THEN Ok(p)
    ELSE build_entries_next(build_entry(p, f, l, Head(names), force), f, l, Tail(names), force)

\* buildLayer: lay.handles = {} if force
drop_handles(p, f, l, force) ==
    IF force THEN [p EXCEPT !.figs[f].layers[l].handles = <<>>] ELSE p

\* buildLayer: every handle of a hidden layer is made invisible
hide_handles(p, f, l) ==
    [p EXCEPT !.figs[f].layers[l].handles = [n \in DOMAIN @ |-> [@[n] EXCEPT !.visible = FALSE]]]

\* plotter2D.buildLayer
buildLayer(p, figure_name, layer_name, force) ==
    IF figure_name \notin DOMAIN p.figs THEN Raise(p, "KeyError")
    ELSE IF ~p.figs[figure_name].display THEN Ok(p)
    ELSE IF layer_name \notin DOMAIN p.figs[figure_name].layers THEN Raise(p, "KeyError")
    ELSE IF ~p.figs[figure_name].layers[layer_name].display
         THEN Ok(hide_handles(p, figure_name, layer_name))
    ELSE build_entries(drop_handles(p, figure_name, layer_name, force), figure_name,
                       layer_name, p.figs[figure_name].layers[layer_name].data_keys, force)

RECURSIVE build_layer_list(_, _, _, _)
\* the loop goes on after a layer unless the layer raised
build_layer_list_next(r, f, layer_list, force) ==
    IF r.exc # "ok" THEN r ELSE build_layer_list(r.p, f, layer_list, force)

\* buildLayers: the loop over layer_list
build_layer_list(p, f, layer_list, force) ==
    IF layer_list = <<>> THEN Ok(p)
    ELSE build_layer_list_next(buildLayer(p, f, Head(layer_list), force), f,
                               Tail(layer_list), force)

\* buildLayers, once the figure is resolved
buildLayers_in(p, rf, layer_list, force) ==
    IF rf.exc # "ok" THEN Raise(p, rf.exc)
    ELSE IF ~p.figs[rf.figure].display THEN Ok(p)
    ELSE build_layer_list(p, rf.figure, layer_list, force)

\* plotter2D.buildLayers
buildLayers(p, layer_list, figure, force) ==
    buildLayers_in(p, resolveFig(p, figure), layer_list, force)


\* the figure names in the order of figs.items(): the order they were added in
FigOrder(p) ==
    [i \in 1..Cardinality(DOMAIN p.figs) |->
        CHOOSE f \in DOMAIN p.figs :
            Cardinality({g \in DOMAIN p.figs : p.figs[g].fignum < p.figs[f].fignum}) = i - 1]

\* _subplots: the grid positions left to right, top to bottom
GridOrder(shape) ==
    [k \in 1..(shape[1] * shape[2]) |->
        <<((k - 1) \div shape[2]) + 1, ((k - 1) % shape[2]) + 1>>]

\* _subplots: the list of layer names a sub-plot spec stands for
layer_info_of(fig_struct, layers) ==
    CASE layers.kind = "list" -> layers.val
      [] layers.kind = "star" -> fig_struct.layer_keys
      [] layers.kind = "str" -> layers.val

\* gui.cb_axes.append(ax); the list is kept without repeats, which `in` and [0],
\* the only reads of it, cannot tell from the list with repeats
cb_append(cb, ax) == IF InSeq(ax, cb) THEN cb ELSE Append(cb, ax)

\* _subplots: subplot_struct['scale'] = None when the spec has no scale
with_scale(p, fig_name, k) ==
    IF p.figs[fig_name].arrange[k].scale = "absent"
    THEN [p EXCEPT !.figs[fig_name].arrange[k].scale = None]
    ELSE p

\* _subplots: ax = fig.add_subplot(...); subplot_struct['axes_obj'] = ax, on rebuild
with_axes(p, fig_name, k, rebuild) ==
    IF rebuild
    THEN [p EXCEPT !.mpl.axes = (p.mpl.next :> [fig |-> p.figs[fig_name].fignum,
                                                arts |-> 0, live |-> TRUE]) @@ @,
                   !.mpl.next = @ + 1,
                   !.figs[fig_name].arrange[k].axes_obj = p.mpl.next]
    ELSE p

\* _subplots: the callbacks of the sub-plot
with_callbacks(p, sp) ==
    IF sp.callbacks
    THEN [p EXCEPT !.cb_axes = cb_append(@, sp.axes_obj),
                   !.RS_line = [ax |-> sp.axes_obj, active |-> FALSE]]
    ELSE p

\* _subplots: self.subplot_lookup[ax] = (fig_name, layer_info, ixstr)
with_lookup(p, fig_name, sp, layer_info) ==
    [p EXCEPT !.subplot_lookup =
        (sp.axes_obj :> [fig |-> fig_name, layers |-> layer_info, pos |-> sp.pos]) @@ @]

\* _subplots: the body of the loop once the axes are made (rebuild) or due to be
\* looked up
subplot_axes(p, fig_name, k, rebuild) ==
    LET sp == p.figs[fig_name].arrange[k]
        layer_info == layer_info_of(p.figs[fig_name], sp.layers)
    IN  IF rebuild /\ sp.name = "absent" THEN Raise(p, "KeyError")
        ELSE IF rebuild /\ Len(sp.axes_vars) < 2 THEN Raise(p, "IndexError")
        ELSE IF rebuild /\ Len(sp.axes_vars) = 3 /\ sp.projection = "absent"
             THEN Raise(p, "KeyError")
        ELSE IF rebuild /\ Len(sp.axes_vars) = 3 /\ sp.projection # "3d"
             THEN Raise(p, "ValueError")
        ELSE IF ~rebuild /\ sp.axes_obj = 0 THEN Raise(p, "KeyError")
        ELSE buildLayers(with_lookup(with_callbacks(p, sp), fig_name, sp, layer_info),
                         layer_info, None, rebuild)

\* index of the sub-plot spec of the figure at position pos, 0 if none
spec_of(p, fig_name, pos) ==
    IF p.figs[fig_name].arranged THEN spec_at(p.figs[fig_name].arrange, pos) ELSE 0

\* _subplots: the body of the loop for one grid position
subplot_step(p, fig_name, pos, rebuild) ==
    IF spec_of(p, fig_name, pos) = 0 THEN Ok(p)
    ELSE subplot_axes(with_axes(with_scale(p, fig_name, spec_of(p, fig_name, pos)),
                                fig_name, spec_of(p, fig_name, pos), rebuild),
                      fig_name, spec_of(p, fig_name, pos), rebuild)

RECURSIVE subplot_steps(_, _, _, _)
\* the loop goes on after a position unless it raised
subplot_steps_next(r, fig_name, poss, rebuild) ==
    IF r.exc # "ok" THEN r ELSE subplot_steps(r.p, fig_name, poss, rebuild)

\* _subplots: the loop over the grid positions
subplot_steps(p, fig_name, poss, rebuild) ==
    IF poss = <<>> THEN Ok(p)
    ELSE subplot_steps_next(subplot_step(p, fig_name, Head(poss), rebuild), fig_name,
                            Tail(poss), rebuild)

\* fig.delaxes of every axes of the figure (no widget axes are modelled here)
delete_axes(p, fignum) ==
    [p EXCEPT !.mpl.axes = [a \in DOMAIN @ |->
                               IF @[a].fig = fignum THEN [@[a] EXCEPT !.live = FALSE]
                               ELSE @[a]]]

\* plotter2D._subplots
subplots(p, fig_name, rebuild) ==
    subplot_steps(IF rebuild THEN delete_axes(p, p.figs[fig_name].fignum) ELSE p,
                  fig_name, GridOrder(p.figs[fig_name].shape), rebuild)

RECURSIVE subplots_of(_, _, _)
\* the loop goes on after a figure unless it raised
subplots_of_next(r, figures, rebuild) ==
    IF r.exc # "ok" THEN r ELSE subplots_of(r.p, figures, rebuild)

\* show: the loop over the figures to update
subplots_of(p, figures, rebuild) ==
    IF figures = <<>> THEN Ok(p)
    ELSE subplots_of_next(subplots(p, Head(figures), rebuild), Tail(figures), rebuild)

\* show: what the loop over every figure's arrange raises, "ok" if nothing
limits_exc(p) ==
    LET order == FigOrder(p)
        bad(f) ==
            IF ~p.figs[f].arranged THEN "AttributeError"
            ELSE LET arr == p.figs[f].arrange
                     e(i) == IF arr[i].axes_obj = 0 THEN "KeyError"
                             ELSE IF arr[i].scale = "absent" THEN "KeyError"
                             ELSE IF arr[i].scale = None THEN "TypeError"
                             ELSE "ok"
                     fails == {i \in 1..Len(arr) : e(i) # "ok"}
                 IN  IF fails = {} THEN "ok"
                     ELSE e(CHOOSE i \in fails : \A j \in fails : i <= j)
        failing == {i \in 1..Len(order) : bad(order[i]) # "ok"}
    IN  IF failing = {} THEN "ok"
        ELSE bad(order[CHOOSE i \in failing : \A j \in failing : i <= j])

\* show: the view limits are applied, then the figures are shown
show_limits(p, e) ==
    IF e # "ok" THEN Raise(p, e) ELSE Ok([p EXCEPT !.shown = TRUE])

\* show: after the update of the figures
show_updated(r) ==
    IF r.exc # "ok" THEN r ELSE show_limits(r.p, limits_exc(r.p))

\* the figures show updates
show_figures(p, update) ==
    CASE update = "current" -> <<resolveFig(p, None).figure>>
      [] update = "all" -> FigOrder(p)
      [] OTHER -> <<>>

\* plotter2D.show(update, rebuild), without the interactive wait and the export
show(p, update, rebuild) ==
    IF update = "current" /\ resolveFig(p, None).exc # "ok"
    THEN Raise(p, resolveFig(p, None).exc)
    ELSE show_updated(subplots_of(p, show_figures(p, update), rebuild))


(***************************************************************************)
(* The diagnosticGUI.  Times and coordinates are whole numbers of tenths.   *)
(* A click of the pointer is the position <<x, y>> of the event.            *)
(***************************************************************************)
\* the fields diagnosticGUI.__init__ and initialize_callbacks set, and the
\* callbacks registry of the canvas: connection id -> handler
NewGUI ==
    [t |-> <<>>, ix |-> <<>>, times |-> <<>>, points |-> <<>>,
     timeLines |-> <<>>, timeBar |-> <<>>,
     _mouseUp |-> TRUE, _mouseDrag |-> FALSE, _key_mod |-> None, _last_ix |-> <<>>,
     _key |-> None, domain_func |-> None, user_func |-> "unset",
     _with_times |-> FALSE, widgets |-> {}, dynamicPlotFns |-> {},
     dynamicPlots |-> <<>>, clipboardPt |-> <<>>, fn_calls |-> <<>>,
     context_objects |-> <<>>, selected_object |-> [kind |-> "unset"],
     selected_object_temphandle |-> <<>>, mouse_wait_state_owner |-> None,
     mouse_cid |-> <<>>, connected |-> <<>>, next_cid |-> 1]

abs(v) == IF v < 0 THEN -v ELSE v

\* an argmin that takes the last of the least elements
np_argmin_last(a) ==
    (CHOOSE i \in 1..Len(a) : \A j \in 1..Len(a) : a[i] < a[j] \/ (a[i] = a[j] /\ j <= i)) - 1

\* np.argmin(a) of a non-empty array: the first index (from 0) of the least element
np_argmin(a) ==
    (CHOOSE i \in 1..Len(a) : \A j \in 1..Len(a) : a[i] < a[j] \/ (a[i] = a[j] /\ i <= j)) - 1

RECURSIVE updatePlots(_, _)
\* Slider.set_val(val) of the time bar: the value shown becomes val, then the
\* observer buildPlotter2D registers with on_changed, updatePlots, is called
set_val(p, val) == updatePlots([p EXCEPT !.gui.timeBar = <<val>>], <<val>>)

\* a set_time that writes the fields whether the index differs or not
set_time_to_always(p, time, ix) ==
    LET p1 == [p EXCEPT !.gui.t = <<p.gui.times[1][ix + 1]>>,
                        !.gui._last_ix = p.gui.ix,
                        !.gui.ix = <<ix>>,
                        !.gui.timeLines = [k \in DOMAIN @ |-> time]]
    IN  IF p1.gui.timeBar = <<>> \/ p1.gui.timeBar = <<time>> THEN Ok(p1)
        ELSE Ok([p1 EXCEPT !.gui.timeBar = <<time>>])

\* a set_time that takes the new index for the index it leaves
set_time_to_late(p, time, ix) ==
    IF p.gui.ix = <<ix>> THEN Ok(p)
    ELSE LET p1 == [p EXCEPT !.gui.t = <<p.gui.times[1][ix + 1]>>,
                             !.gui._last_ix = <<ix>>,
                             !.gui.ix = <<ix>>,
                             !.gui.timeLines = [k \in DOMAIN @ |-> time]]
         IN  IF p1.gui.timeBar = <<>> \/ p1.gui.timeBar = <<time>> THEN Ok(p1)
             ELSE set_val(p1, time)

\* set_time: the fields written once the index is found to differ, and the
\* time bar (widgets['timeBar'], <<>> while there is none: the KeyError passed)
set_time_to(p, time, ix) ==
    IF p.gui.ix = <<ix>> THEN Ok(p)
    ELSE LET p1 == [p EXCEPT !.gui.t = <<p.gui.times[1][ix + 1]>>,
                             !.gui._last_ix = p.gui.ix,
                             !.gui.ix = <<ix>>,
                             !.gui.timeLines = [k \in DOMAIN @ |-> time]]
         IN  IF p1.gui.timeBar = <<>> \/ p1.gui.timeBar = <<time>> THEN Ok(p1)
             ELSE set_val(p1, time)

\* diagnosticGUI.set_time; time is <<>> (None) or <<x>>
set_time(p, time) ==
    IF time = <<>> THEN Ok(p)
    \* None - time
    ELSE IF p.gui.times = <<>> THEN Raise(p, "TypeError")
    \* argmin of an empty array
    ELSE IF p.gui.times[1] = <<>> THEN Raise(p, "ValueError")
    ELSE set_time_to(p, time[1],
                     np_argmin([k \in DOMAIN p.gui.times[1] |->
                                   abs(p.gui.times[1][k] - time[1])]))

\* the callbacks one updateDynamic calls: dynamicFns[layer](time, hard_reset)
\* for every layer of every figure that is flagged dynamic and is a key of
\* dynamicFns (a set of layer names here)
dynamic_calls(p, time, dynamicFns, hard_reset) ==
    {[fig |-> f, layer |-> l, time |-> time, hard_reset |-> hard_reset] :
        <<f, l>> \in {fl \in UNION {{<<g, k>> : k \in DOMAIN p.figs[g].layers} :
                                       g \in DOMAIN p.figs} :
                         /\ p.figs[fl[1]].layers[fl[2]].dynamic
                         /\ fl[2] \in dynamicFns}}

\* an updateDynamic that does not look at the dynamic flag of the layer
updateDynamic_all(p, time, hard_reset) ==
    LET S == {[fig |-> f, layer |-> l, time |-> time, hard_reset |-> hard_reset] :
                 <<f, l>> \in {fl \in UNION {{<<g, k>> : k \in DOMAIN p.figs[g].layers} :
                                                g \in DOMAIN p.figs} :
                                  fl[2] \in p.gui.dynamicPlotFns}}
        b == p.gui.fn_calls
    IN  IF S = {} THEN p
        ELSE [p EXCEPT !.gui.fn_calls =
                [e \in DOMAIN b \cup S |-> (IF e \in DOMAIN b THEN b[e] ELSE 0)
                                           + (IF e \in S THEN 1 ELSE 0)]]

\* plotter.updateDynamic(time, dynamicFns, hard_reset) with the dynamicPlotFns
\* of the GUI.  The callbacks are the user's: fn_calls counts the calls each
\* has received, by figure, layer and arguments
updateDynamic(p, time, hard_reset) ==
    LET S == dynamic_calls(p, time, p.gui.dynamicPlotFns, hard_reset)
        b == p.gui.fn_calls
    IN  IF S = {} THEN p
        ELSE [p EXCEPT !.gui.fn_calls =
                [e \in DOMAIN b \cup S |-> (IF e \in DOMAIN b THEN b[e] ELSE 0)
                                           + (IF e \in S THEN 1 ELSE 0)]]

\* updatePlots: after set_time
plots_updated(r) ==
    IF r.exc # "ok" THEN r ELSE Ok(updateDynamic(r.p, r.p.gui.t, FALSE))

\* diagnosticGUI.updatePlots
updatePlots(p, new_time) == plots_updated(set_time(p, new_time))

\* diagnosticGUI.refresh, the handler of the Refresh button
refresh(p) == Ok(updateDynamic(p, p.gui.t, p.gui._key_mod = "shift"))

\* a Back that forgets the index it left
goBack_once(p) ==
    IF p.gui._last_ix = <<>> THEN Ok(p)
    ELSE IF p.gui.times = <<>> THEN Raise(p, "TypeError")
    ELSE Ok([updatePlots(p, <<p.gui.times[1][p.gui._last_ix[1] + 1]>>).p
                EXCEPT !.gui._last_ix = <<>>])

\* diagnosticGUI.goBack
goBack(p) ==
    IF p.gui._last_ix = <<>> THEN Ok(p)
    \* None[...]
    ELSE IF p.gui.times = <<>> THEN Raise(p, "TypeError")
    ELSE updatePlots(p, <<p.gui.times[1][p.gui._last_ix[1] + 1]>>)

\* self._key_mod_dix, the index steps of the +/- dt controls by key modifier
key_mod_dix == (None :> 5) @@ ("shift" :> 10) @@ ("control" :> 1)

max(a, b) == IF a >= b THEN a ELSE b
min(a, b) == IF a <= b THEN a ELSE b

\* minus_dt, plus_dt: from the index ix found
dt_to(p, ix) ==
    IF <<ix>> = p.gui.ix THEN Ok(p) ELSE set_time(p, <<p.gui.times[1][ix + 1]>>)

\* minus_dt (sign = -1) and plus_dt (sign = 1) after dix is looked up
dt_by(p, sign, dix) ==
    \* None - dix, len(None)
    IF p.gui.ix = <<>> \/ p.gui.times = <<>> THEN Raise(p, "TypeError")
    ELSE dt_to(p, max(0, min(p.gui.ix[1] + sign * dix, Len(p.gui.times[1]) - 1)))

\* diagnosticGUI.minus_dt
minus_dt(p) ==
    IF p.gui._key_mod \notin DOMAIN key_mod_dix THEN Raise(p, "KeyError")
    ELSE dt_by(p, 0 - 1, key_mod_dix[p.gui._key_mod])

\* diagnosticGUI.plus_dt
plus_dt(p) ==
    IF p.gui._key_mod \notin DOMAIN key_mod_dix THEN Raise(p, "KeyError")
    ELSE dt_by(p, 1, key_mod_dix[p.gui._key_mod])

\* diagnosticGUI.modifier_key_on: the key of any key press is kept
modifier_key_on(p, key) == Ok([p EXCEPT !.gui._key_mod = key])

\* diagnosticGUI.modifier_key_off
modifier_key_off(p) == Ok([p EXCEPT !.gui._key_mod = None])

\* grid position a comes before b left to right, top to bottom
Before(a, b) == a[1] < b[1] \/ (a[1] = b[1] /\ a[2] < b[2])

\* diagnosticGUI.mouseDownFn
mouseDownFn(p) == Ok([p EXCEPT !.gui._mouseUp = FALSE])

\* a mouseMoveFn that takes every move for a drag
mouseMoveFn_always(p) == Ok([p EXCEPT !.gui._mouseDrag = TRUE])

\* diagnosticGUI.mouseMoveFn
mouseMoveFn(p) == Ok([p EXCEPT !.gui._mouseDrag = ~p.gui._mouseUp])

\* diagnosticGUI.getPoint; ev.pos is <<xdata, ydata>>, <<>> outside every axes
getPoint(p, ev) == set_time(p, IF ev.pos = <<>> THEN <<>> ELSE <<ev.pos[1]>>)

\* pp.Point2D(x, y, xname=..., yname=...)
NamedPoint2D(x, y, xname, yname) ==
    [kind |-> "point", x |-> x, y |-> y, coordnames |-> <<xname, yname>>]

\* diagnosticGUI.getDynamicPoint
getDynamicPoint(p, ev) ==
    IF ev.inaxes \notin DOMAIN p.subplot_lookup THEN Raise(p, "KeyError")
    ELSE LET lk == p.subplot_lookup[ev.inaxes]
         IN  IF lk.fig \notin DOMAIN p.figs THEN Raise(p, "KeyError")
             ELSE IF lk.layers = <<>> THEN Raise(p, "IndexError")
             ELSE IF lk.layers[1] \notin DOMAIN p.figs[lk.fig].layers
                  THEN Raise(p, "KeyError")
             \* layer_struct.axes_vars[0], [1]
             ELSE IF Len(p.figs[lk.fig].layers[lk.layers[1]].axes_vars) < 2
                  THEN Raise(p, "IndexError")
             ELSE Ok([p EXCEPT !.gui.clipboardPt =
                         <<NamedPoint2D(ev.pos[1], ev.pos[2],
                                        p.figs[lk.fig].layers[lk.layers[1]].axes_vars[1],
                                        p.figs[lk.fig].layers[lk.layers[1]].axes_vars[2])>>])

\* mouseUpFn: whether the release is looked at (do_get)
do_get(p, ev) ==
    /\ ~p.gui._mouseDrag
    /\ p.gui._with_times
    /\ \A w \in DOMAIN p.gui.widgets : ev.inaxes # p.gui.widgets[w]

\* mouseUpFn: self._mouseDrag = False, reached unless the release raised
mouse_up_done(r) ==
    IF r.exc # "ok" THEN r ELSE Ok([r.p EXCEPT !.gui._mouseDrag = FALSE])

\* diagnosticGUI.mouseUpFn; ev.inaxes is the axes of the release, 0 for None
mouseUpFn(p, ev) ==
    IF ~do_get(p, ev) THEN mouse_up_done(Ok([p EXCEPT !.gui._mouseUp = TRUE]))
    ELSE IF \E l \in DOMAIN p.gui.dynamicPlots : p.gui.dynamicPlots[l] = ev.inaxes
         THEN mouse_up_done(getDynamicPoint([p EXCEPT !.gui._mouseUp = TRUE], ev))
    ELSE mouse_up_done(getPoint([p EXCEPT !.gui._mouseUp = TRUE], ev))

\* the widgets buildPlotter2D makes, in the order it makes them; the axes of
\* the k-th (plt.axes(...), never a sub-plot's axes) is numbered -k
WidgetOrder ==
    <<"timeBar", "minus_dt", "plus_dt", "capturePoint", "refresh", "goBack", "save">>

\* the names of a first axis variable whose lower() is in ["time", "t"]
TimeNames == {"time", "t", "Time", "T"}

\* buildPlotter2D: the widgets of the master window
build_widgets(p, with_times, basic_widgets) ==
    [p EXCEPT !.gui.widgets =
        [w \in {WidgetOrder[k] : k \in {k \in 1..Len(WidgetOrder) :
                                           IF k <= 3 THEN with_times ELSE basic_widgets}}
            |-> 0 - (CHOOSE k \in 1..Len(WidgetOrder) : WidgetOrder[k] = w)],
              !.gui.timeBar = IF with_times THEN p.gui.t ELSE @]

\* buildPlotter2D: the loop over the sub-plots of the master figure after show:
\* the axes of the layers with a dynamic function, a time line at self.t on
\* every sub-plot whose first axis variable is the time.  (The initialising call
\* dynamicPlotFns[layName](self.t) is not a call with (time, hard_reset) and is
\* not counted in fn_calls.)
build_plots(p, with_times) ==
    LET arr == p.figs["Master"].arrange
        subs == {k \in 1..Len(arr) : ~bad_position(arr[k].pos, p.figs["Master"].shape)}
        info(k) == layer_info_of(p.figs["Master"], arr[k].layers)
        dyn == {l \in p.gui.dynamicPlotFns : \E k \in subs : InSeq(l, info(k))}
        timed == {k \in subs : arr[k].axes_vars[1] \in TimeNames}
    IN  [p EXCEPT !.gui.dynamicPlots =
                      [l \in dyn |-> arr[CHOOSE k \in subs :
                                              /\ InSeq(l, info(k))
                                              /\ \A j \in subs : InSeq(l, info(j)) =>
                                                    ~Before(arr[k].pos, arr[j].pos)].axes_obj]
                      @@ @,
                  !.gui.timeLines =
                      IF with_times
                      THEN [i \in 1..(Len(@) + Cardinality(timed)) |->
                               IF i <= Len(@) THEN @[i] ELSE p.gui.t[1]]
                      ELSE @]

\* buildPlotter2D: from the show of the master figure on
build_shown(r, with_times) ==
    IF r.exc # "ok" THEN r ELSE Ok(build_plots(r.p, with_times))

\* buildPlotter2D: the time bar is made at self.t, set to the middle of the
\* times first if it is None
build_timed(r, with_times, basic_widgets) ==
    IF r.exc # "ok" THEN r
    ELSE build_shown(show(build_widgets(r.p, with_times, basic_widgets), "all", TRUE),
                     with_times)

\* diagnosticGUI.buildPlotter2D(with_times=..., basic_widgets=...) of a plotter
\* whose only figure is Master
buildPlotter2D(p, with_times, basic_widgets) ==
    LET p0 == [p EXCEPT !.gui._with_times = with_times]
    IN  IF ~with_times THEN build_timed(Ok(p0), with_times, basic_widgets)
        \* min(None)
        ELSE IF p0.gui.times = <<>> THEN Raise(p0, "TypeError")
        \* min([])
        ELSE IF p0.gui.times[1] = <<>> THEN Raise(p0, "ValueError")
        ELSE IF p0.gui.t # <<>> THEN build_timed(Ok(p0), with_times, basic_widgets)
        ELSE build_timed(set_time(p0, <<(p0.gui.times[1][1]
                                          + p0.gui.times[1][Len(p0.gui.times[1])]) \div 2>>),
                         with_times, basic_widgets)

\* canvas.mpl_connect('button_release_event', handler); self.mouse_cid = the id
mpl_connect(p, handler) ==
    [p EXCEPT !.gui.connected = (p.gui.next_cid :> handler) @@ @,
              !.gui.mouse_cid = <<p.gui.next_cid>>,
              !.gui.next_cid = @ + 1]

\* canvas.mpl_disconnect(cid): an id that is not connected is passed over
mpl_disconnect(p, cid) ==
    [p EXCEPT !.gui.connected = [c \in DOMAIN @ \ {cid} |-> @[c]]]

\* current_domain_handler.event(e) of fovea.domain2D (not under src/): no field
\* of this model is written
domain_event(p, e) == p

\* a domain key that asks for no criterion function
key_on_domain_unchecked(p) ==
    Ok([domain_event(p, "key") EXCEPT !.gui.mouse_wait_state_owner = "domain"])

\* key_on: the branch of the domain key
key_on_domain(p) ==
    IF p.gui.domain_func = None THEN Ok(p)
    ELSE Ok([domain_event(p, "key") EXCEPT !.gui.mouse_wait_state_owner = "domain"])

\* key_on: after self._key = k
key_on_mode(p, k) ==
    IF p.gui.mouse_wait_state_owner = "domain" /\ k \in {"l", "s", " ", "."}
    THEN Ok(domain_event(p, "clear"))
    ELSE IF k = "l"
         THEN IF p.RS_line.ax = 0 THEN Raise(p, "AttributeError")
              ELSE Ok([p EXCEPT !.RS_line.active = TRUE,
                                !.gui.mouse_wait_state_owner = "line"])
    ELSE IF k = " "
         THEN Ok([mpl_connect(p, "mouse_event_user_function")
                    EXCEPT !.gui.mouse_wait_state_owner = "user_func"])
    ELSE IF k = "s"
         THEN Ok([mpl_connect(p, "mouse_event_snap")
                    EXCEPT !.gui.mouse_wait_state_owner = "snap"])
    ELSE IF k = "."
         THEN key_on_domain(IF p.gui.selected_object_temphandle # <<>>
                            THEN domain_event(p, "reset") ELSE p)
    ELSE Ok(p)

\* diagnosticGUI.key_on
key_on(p, k) == key_on_mode([p EXCEPT !.gui._key = k], k)

\* the tolerance of the snap, eps = 0.1
SnapEps == 1

\* the squared distance of two points
dist2(a, b) == (a[1] - b[1]) * (a[1] - b[1]) + (a[2] - b[2]) * (a[2] - b[2])

\* pp.find_pt_nophase_2D(points, pt, eps) of PyDSTool: the index of the sample
\* nearest to pt, <<>> for the ValueError raised when none is within eps
find_pt_nophase_2D(points, pt, eps) ==
    IF \A i \in 1..Len(points) : dist2(points[i], pt) > eps * eps THEN <<>>
    ELSE <<np_argmin([i \in 1..Len(points) |-> dist2(points[i], pt)]) + 1>>

\* self.selected_object_temphandle.remove() if the GUI holds a marker
remove_marker(p) ==
    IF p.gui.selected_object_temphandle = <<>> THEN p
    ELSE [p EXCEPT !.mpl.axes[p.gui.selected_object_temphandle[1].ax].arts = @ - 1]

\* ax.plot(x, y, 'go')[0] kept as the marker
plot_marker(p, ax) ==
    [add_artist(p, ax) EXCEPT !.gui.selected_object_temphandle =
                                  <<[id |-> p.mpl.next, ax |-> ax]>>]

\* pp.Point2D(x, y)
Point2D(x, y) == [kind |-> "point", x |-> x, y |-> y, coordnames |-> <<"x", "y">>]

\* mouse_event_snap: a sample was found
snap_to(p, pt) ==
    IF p.RS_line.ax = 0
    THEN Raise(remove_marker([p EXCEPT !.gui.selected_object = Point2D(pt[1], pt[2])]),
               "AttributeError")
    ELSE Ok([mpl_disconnect(plot_marker(remove_marker(
                    [p EXCEPT !.gui.selected_object = Point2D(pt[1], pt[2])]),
                    p.RS_line.ax), p.gui.mouse_cid[1])
               EXCEPT !.gui.mouse_wait_state_owner = None])

\* mouse_event_snap: after the search of the nearest sample
snap_found(p, found) ==
    IF found = <<>> THEN Ok(mpl_disconnect(p, p.gui.mouse_cid[1]))
    ELSE snap_to(p, p.gui.points[1][found[1]])

\* diagnosticGUI.mouse_event_snap; ev is the position of the release, <<>> when
\* the pointer is outside the axes (xdata is None)
mouse_event_snap(p, ev) ==
    IF p.gui.points = <<>> THEN Ok(p)
    \* "%.4f" % None
    ELSE IF ev = <<>> THEN Raise(p, "TypeError")
    ELSE snap_found(p, find_pt_nophase_2D(p.gui.points[1], ev, SnapEps))

\* mouse_event_user_function: the user function has returned a pair
user_function_done(p, ev) ==
    Ok([mpl_disconnect(plot_marker(remove_marker(
              [p EXCEPT !.gui.selected_object = Point2D(ev.pos[1], ev.pos[2])]),
              ev.inaxes), p.gui.mouse_cid[1])
          EXCEPT !.gui.mouse_wait_state_owner = None])

\* diagnosticGUI.mouse_event_user_function; ev.inaxes is the axes of the release
\* (None outside every axes), ev.pos its position there.  self.user_func does
\* not exist until assign_user_func ("unset"); the function given either
\* returns a pair ("returns") or raises ("raises")
mouse_event_user_function(p, ev) ==
    IF ~InSeq(ev.inaxes, p.cb_axes) THEN Ok(p)
    ELSE IF p.gui.user_func = "unset" THEN Raise(p, "AttributeError")
    ELSE IF p.gui.user_func = "raises" THEN Raise(p, "Exception")
    ELSE user_function_done(p, ev)

\* diagnosticGUI.assign_user_func
assign_user_func(p, func) == Ok([p EXCEPT !.gui.user_func = func])

\* diagnosticGUI.key_off
key_off(p) == Ok([p EXCEPT !.gui._key = None])

(***************************************************************************)
(* The line of interest.  A length is kept as the number it is the square   *)
(* root of, an angle as the direction <<dy, dx>> in lowest terms.           *)
(***************************************************************************)
RECURSIVE gcd(_, _)
gcd(a, b) == IF b = 0 THEN a ELSE gcd(b, a % b)

\* np.linalg.norm((dx, dy))
norm(dx, dy) == [sqrt |-> dx * dx + dy * dy]

\* atan2(dy, dx); atan2(0, 0) = atan2(0, dx) = 0 for dx > 0
atan2(dy, dx) ==
    IF dy = 0 /\ dx >= 0 THEN [dir |-> <<0, 1>>]
    ELSE [dir |-> <<dy \div gcd(abs(dy), abs(dx)), dx \div gcd(abs(dy), abs(dx))>>]

\* endpoints of which only the x coordinates are put in order
ordered_x(pt1, pt2) ==
    IF pt1.x > pt2.x THEN <<[pt1 EXCEPT !.x = pt2.x], [pt2 EXCEPT !.x = pt1.x]>>
    ELSE <<pt1, pt2>>

\* line_GUI.__init__: the first point is the one with the lower x
ordered(pt1, pt2) == IF pt1.x > pt2.x THEN <<pt2, pt1>> ELSE <<pt1, pt2>>

\* the fields of a line_GUI with the endpoints e, drawn as the artist l on axes
line_fields(e, gui_axes, l) ==
    [kind |-> "line", x1 |-> e[1].x, y1 |-> e[1].y, x2 |-> e[2].x, y2 |-> e[2].y,
     dy |-> e[2].y - e[1].y, dx |-> e[2].x - e[1].x,
     length |-> norm(e[2].x - e[1].x, e[2].y - e[1].y),
     ang |-> atan2(e[2].y - e[1].y, e[2].x - e[1].x),
     gui_axes |-> gui_axes, l |-> l, name |-> "<untitled>"]

\* a line that is made known to the GUI and shown, but not selected
declare_line_unselected(p, ln) ==
    [add_artist(p, ln.gui_axes) EXCEPT !.gui.context_objects = Append(@, ln)]

\* line_GUI.__init__, from gui.declare_in_context(self) on: the line is made
\* known to the GUI, selected and shown (show() draws the artist ln.l)
declare_line(p, ln) ==
    [add_artist(p, ln.gui_axes)
        EXCEPT !.gui.context_objects = Append(@, ln),
               !.gui.selected_object = ln]

\* line_GUI(gui, gui_axes, pt1, pt2) with gui_axes an axes object
line_GUI(p, gui_axes, pt1, pt2) ==
    IF pt2.coordnames # pt1.coordnames THEN Raise(p, "ValueError")
    ELSE Ok(declare_line(p, line_fields(ordered(pt1, pt2), gui_axes, p.mpl.next)))

\* onselect_line: after the line is made
line_selected(r) ==
    IF r.exc # "ok" THEN r
    ELSE Ok([r.p EXCEPT !.RS_line.active = FALSE, !.gui.mouse_wait_state_owner = None])

\* diagnosticGUI.onselect_line; eclick and erelease are positions
onselect_line(p, button, eclick, erelease) ==
    IF button # 1 THEN Ok(p)
    ELSE line_selected(line_GUI(p, p.RS_line.ax, Point2D(eclick[1], eclick[2]),
                                Point2D(erelease[1], erelease[2])))

(***************************************************************************)
(* The tracker_manager.  tracked maps a calculation context to its tracker  *)
(* object: its class and, by figure number, the quantities it tracks.       *)
(***************************************************************************)
\* tracker_manager.__init__
NewTracker == [tracked |-> <<>>, all_figs |-> <<>>]

\* tracker_plotter.__call__ / tracker_textconsole.__call__ on the tracker tp:
\* the quantity is added to those of the figure
track(tp, fignum, new_track) ==
    IF fignum \in DOMAIN tp.figs
    THEN [tp EXCEPT !.figs[fignum] = Append(@, new_track)]
    ELSE [tp EXCEPT !.figs = (fignum :> <<new_track>>) @@ @]

\* tracker_manager.__call__: the context is tracked already; its tracker is
\* called with the arguments of the class asked for, then the figure is noted
track_more(p, calc_context, fignum, kind, new_track) ==
    \* the tracker of the other class takes another number of arguments
    IF p.tracker.tracked[calc_context].kind # kind THEN Raise(p, "TypeError")
    ELSE Ok([p EXCEPT !.tracker.tracked[calc_context] = track(@, fignum, new_track),
                      !.tracker.all_figs = IF InSeq(fignum, @) THEN @
                                           ELSE Append(@, fignum)])

\* tracker_manager.__call__: the context is new
track_new(p, calc_context, fignum, kind, new_track) ==
    IF InSeq(fignum, p.tracker.all_figs) THEN Raise(p, "ValueError")
    ELSE Ok([p EXCEPT !.tracker.tracked =
                (calc_context :> track([kind |-> kind, figs |-> <<>>], fignum, new_track))
                    @@ @])

\* tracker_manager.__call__ once the metadata is told apart
tracker_as(p, calc_context, fignum, kind, new_track) ==
    IF calc_context \in DOMAIN p.tracker.tracked
    THEN track_more(p, calc_context, fignum, kind, new_track)
    ELSE track_new(p, calc_context, fignum, kind, new_track)

\* tracker_manager.__call__; plot_metadata is None or <<xstr, ystr, style>>,
\* text_metadata None or an attribute name
tracker_call(p, calc_context, fignum, plot_metadata, text_metadata) ==
    IF plot_metadata # None /\ text_metadata # None THEN Raise(p, "ValueError")
    ELSE IF plot_metadata # None
         THEN tracker_as(p, calc_context, fignum, "tracker_plotter", plot_metadata)
    ELSE tracker_as(p, calc_context, fignum, "tracker_textconsole", text_metadata)

(***************************************************************************)
(* The state after construction: plotter = plotter2D(), gui =              *)
(* diagnosticGUI(plotter).  RS_line.ax = 0: no selector made yet.           *)
(***************************************************************************)
Constructed ==
    [figs |-> <<>>, max_fig_num |-> 0, active_layer |-> <<>>, currFig |-> None,
     mpl |-> [next |-> 1, axes |-> <<>>], subplot_lookup |-> <<>>, shown |-> FALSE,
     cb_axes |-> <<>>, RS_line |-> [ax |-> 0, active |-> FALSE], gui |-> NewGUI,
     tracker |-> NewTracker]

StateIs(p) ==
    /\ figs = p.figs
    /\ max_fig_num = p.max_fig_num
    /\ active_layer = p.active_layer
    /\ currFig = p.currFig
    /\ mpl = p.mpl
    /\ subplot_lookup = p.subplot_lookup
    /\ shown = p.shown
    /\ cb_axes = p.cb_axes
    /\ RS_line = p.RS_line
    /\ gui = p.gui
    /\ tracker = p.tracker

\* the handler's result becomes the next state
Becomes(p) ==
    /\ figs' = p.figs
    /\ max_fig_num' = p.max_fig_num
    /\ active_layer' = p.active_layer
    /\ currFig' = p.currFig
    /\ mpl' = p.mpl
    /\ subplot_lookup' = p.subplot_lookup
    /\ shown' = p.shown
    /\ cb_axes' = p.cb_axes
    /\ RS_line' = p.RS_line
    /\ gui' = p.gui
    /\ tracker' = p.tracker

\* every data entry of the registry, as <<figure, layer, name>>
Entries(fs) ==
    UNION {UNION {{<<f, l, n>> : n \in DOMAIN fs[f].layers[l].data} :
                     l \in DOMAIN fs[f].layers} : f \in DOMAIN fs}

(***************************************************************************)
(* Calls.  The caller (or the event dispatcher) makes one call at a time:   *)
(* Invoke dispatches it, the handler's action runs the whole handler, and   *)
(* Return gives control back.  Between the handler and Return, call and ret *)
(* hold what was called and how it ended.                                   *)
(***************************************************************************)
NoCall == [op |-> "none"]

Idle == call = NoCall /\ ret = "idle"
Pending(op) == call.op = op /\ ret = "pending"
\* the handler of a call `op` has run in the step just taken
Ran(op) == call.op = op /\ ret = "pending" /\ ret' # "pending"
\* the state a handler has left, before control returns
Done(op) == call.op = op /\ ret \notin {"idle", "pending"}

\* what the handler of call c can leave when run from p
Results(p, c) ==
    CASE c.op = "addData" ->
            {addData(p, c.data, sz, c.figure, c.layer, c.subplot, c.style, c.name,
                     c.display, c.force) : sz \in np_shape_outcomes(c.data)}
      [] c.op = "addText" ->
            {addText(p, c.x, c.y, c.text, c.name, c.layer, c.subplot, c.figure,
                     c.display, c.style, c.force)}
      [] c.op = "addPatch" ->
            {addPatch(p, c.data, sz, c.figure, c.layer, c.subplot, c.name, c.display,
                      c.force) : sz \in np_shape_outcomes(c.data)}
      [] c.op = "show" -> {show(p, c.update, c.rebuild)}
      [] c.op = "set_time" -> {set_time(p, c.time)}
      [] c.op = "key_on" -> {key_on(p, c.key)}
      [] c.op = "mouse_event_snap" -> {mouse_event_snap(p, c.ev)}
      [] c.op = "onselect_line" -> {onselect_line(p, c.button, c.eclick, c.erelease)}
      [] c.op = "line_GUI" -> {line_GUI(p, c.gui_axes, c.pt1, c.pt2)}
      [] c.op = "toggleDisplay" -> {toggleDisplay(p, c.names, c.layer, c.figure)}
      [] c.op = "setDisplay" -> {setDisplay(p, c.names, c.display, c.layer, c.figure)}
      [] c.op = "appendData" -> {appendData(p, c.data, c.layer, c.name, c.figure)}
      [] c.op = "setPoint" -> {setPoint(p, c.name, c.pt, c.layer, c.figure)}
      [] c.op = "setText" -> {setText(p, c.name, c.text, c.layer, c.pos, c.figure)}
      [] c.op = "setData" -> {setData(p, c.layer, c.figure, c.kwargs)}
      [] c.op = "setLayer" -> {setLayer(p, c.label, c.figure, c.kwargs)}
      [] c.op = "addFig" -> {addFig(p, c.label, c.domain, c.display)}
      [] c.op = "addLayer" ->
            {addLayer(p, c.layer_name, c.figure, c.set_to_active, c.kwargs)}
      [] c.op = "arrangeFig" -> {arrangeFig(p, c.shape, c.arrPlots, c.figure)}
      [] c.op = "set_active_layer" -> {set_active_layer(p, c.layer, c.figure)}
      [] c.op = "mouse_event_user_function" -> {mouse_event_user_function(p, c.event)}
      [] c.op = "assign_user_func" -> {assign_user_func(p, c.func)}
      [] c.op = "key_off" -> {key_off(p)}
      [] c.op = "setFig" -> {setFig(p, c.label)}
      [] c.op = "tracker" ->
            {tracker_call(p, c.calc_context, c.fignum, c.plot_metadata, c.text_metadata)}
      [] c.op = "updatePlots" -> {updatePlots(p, c.time)}
      [] c.op = "goBack" -> {goBack(p)}
      [] c.op = "minus_dt" -> {minus_dt(p)}
      [] c.op = "plus_dt" -> {plus_dt(p)}
      [] c.op = "modifier_key_on" -> {modifier_key_on(p, c.key)}
      [] c.op = "modifier_key_off" -> {modifier_key_off(p)}
      [] c.op = "set_val" -> {set_val(p, c.val)}
      [] c.op = "copyFig" -> {copyFig(p, c.newFig, c.oldFig)}
      [] c.op = "clearFigData" -> {clearFigData(p, c.figure_name)}
      [] c.op = "clean" -> {clean(p)}
      [] c.op = "refresh" -> {refresh(p)}
      [] c.op = "mouseDownFn" -> {mouseDownFn(p)}
      [] c.op = "mouseMoveFn" -> {mouseMoveFn(p)}
      [] c.op = "mouseUpFn" -> {mouseUpFn(p, c.event)}

RECURSIVE SumLen(_, _)
\* the sum of the lengths of the sequences f[k], k in S
SumLen(f, S) ==
    IF S = {} THEN 0
    ELSE LET k == CHOOSE x \in S : TRUE IN Len(f[k]) + SumLen(f, S \ {k})

RECURSIVE TracksOf(_, _)
TracksOf(tr, S) ==
    IF S = {} THEN 0
    ELSE LET c == CHOOSE x \in S : TRUE
         IN  SumLen(tr.tracked[c].figs, DOMAIN tr.tracked[c].figs) + TracksOf(tr, S \ {c})

\* the number of quantities the tracker tracks
Tracks(tr) == TracksOf(tr, DOMAIN tr.tracked)

RECURSIVE SumOf(_, _)
\* the sum of b[e], e in S
SumOf(b, S) ==
    IF S = {} THEN 0
    ELSE LET e == CHOOSE x \in S : TRUE IN b[e] + SumOf(b, S \ {e})

\* the runs explored: the registry and the backend stay within the bounds
InBounds(p) ==
    /\ SumOf(p.gui.fn_calls, DOMAIN p.gui.fn_calls) <= MaxCalls
    /\ Cardinality(Entries(p.figs)) <= MaxEntries
    /\ p.mpl.next <= MaxObjs + 1
    /\ Len(p.gui.context_objects) <= MaxLines
    /\ p.gui.next_cid <= MaxCids + 1
    /\ Tracks(p.tracker) <= MaxTracks
    /\ \A e \in Entries(p.figs) :
          LET d == p.figs[e[1]].layers[e[2]].data[e[3]]
          IN  ("data" \in EntryKeys(d) /\ EntryData(d).rank = 2)
                 => \A i \in DOMAIN EntryData(d).rows : Len(EntryData(d).rows[i]) <= MaxRow

\* whether the environment can make the call: an event handler is called only
\* by the canvas or the widget it is registered with
Callable(c) ==
    CASE c.op = "mouse_event_snap" ->
            \E cid \in DOMAIN gui.connected : gui.connected[cid] = "mouse_event_snap"
      [] c.op = "onselect_line" -> RS_line.ax # 0 /\ RS_line.active
      [] c.op = "mouse_event_user_function" ->
            \E cid \in DOMAIN gui.connected :
                gui.connected[cid] = "mouse_event_user_function"
      [] OTHER -> TRUE

Invoke(c) ==
    /\ Idle
    /\ Callable(c)
    /\ \A r \in Results(PS, c) : InBounds(r.p)
    /\ call' = c
    /\ ret' = "pending"
    /\ UNCHANGED <<sceneVars, synced>>

Return ==
    /\ ret \notin {"idle", "pending"}
    /\ call' = NoCall
    /\ ret' = "idle"
    /\ UNCHANGED <<sceneVars, synced>>

\* the handler ran and left p, ending with exc
Handled(r) ==
    /\ Becomes(r.p)
    /\ ret' = r.exc
    /\ synced' = (call.op = "show" /\ call.update # None /\ ~call.rebuild /\ r.exc = "ok")
    /\ UNCHANGED call

(***************************************************************************)
(* Actions: one handler each.                                              *)
(***************************************************************************)
AddData ==
    /\ Pending("addData")
    /\ \E sz \in np_shape_outcomes(call.data) :
          Handled(addData(PS, call.data, sz, call.figure, call.layer, call.subplot,
                          call.style, call.name, call.display, call.force))

AddText ==
    /\ Pending("addText")
    /\ Handled(addText(PS, call.x, call.y, call.text, call.name, call.layer, call.subplot,
                       call.figure, call.display, call.style, call.force))

AddPatch ==
    /\ Pending("addPatch")
    /\ \E sz \in np_shape_outcomes(call.data) :
          Handled(addPatch(PS, call.data, sz, call.figure, call.layer, call.subplot,
                           call.name, call.display, call.force))

Show ==
    /\ Pending("show")
    /\ Handled(show(PS, call.update, call.rebuild))

SetTime ==
    /\ Pending("set_time")
    /\ Handled(set_time(PS, call.time))

KeyOn ==
    /\ Pending("key_on")
    /\ Handled(key_on(PS, call.key))

\* the canvas calls the handler only while a connection to it exists
MouseEventSnap ==
    /\ Pending("mouse_event_snap")
    /\ Handled(mouse_event_snap(PS, call.ev))

\* the selector calls the handler only while it is active
OnselectLine ==
    /\ Pending("onselect_line")
    /\ Handled(onselect_line(PS, call.button, call.eclick, call.erelease))

NewLine ==
    /\ Pending("line_GUI")
    /\ Handled(line_GUI(PS, call.gui_axes, call.pt1, call.pt2))

ToggleDisplay ==
    /\ Pending("toggleDisplay")
    /\ Handled(toggleDisplay(PS, call.names, call.layer, call.figure))

SetDisplay ==
    /\ Pending("setDisplay")
    /\ Handled(setDisplay(PS, call.names, call.display, call.layer, call.figure))

AppendData ==
    /\ Pending("appendData")
    /\ Handled(appendData(PS, call.data, call.layer, call.name, call.figure))

SetPoint ==
    /\ Pending("setPoint")
    /\ Handled(setPoint(PS, call.name, call.pt, call.layer, call.figure))

SetText ==
    /\ Pending("setText")
    /\ Handled(setText(PS, call.name, call.text, call.layer, call.pos, call.figure))

SetData ==
    /\ Pending("setData")
    /\ Handled(setData(PS, call.layer, call.figure, call.kwargs))

SetLayer ==
    /\ Pending("setLayer")
    /\ Handled(setLayer(PS, call.label, call.figure, call.kwargs))

AddFig ==
    /\ Pending("addFig")
    /\ Handled(addFig(PS, call.label, call.domain, call.display))

AddLayer ==
    /\ Pending("addLayer")
    /\ Handled(addLayer(PS, call.layer_name, call.figure, call.set_to_active, call.kwargs))

ArrangeFig ==
    /\ Pending("arrangeFig")
    /\ Handled(arrangeFig(PS, call.shape, call.arrPlots, call.figure))

SetActiveLayer ==
    /\ Pending("set_active_layer")
    /\ Handled(set_active_layer(PS, call.layer, call.figure))

\* the canvas calls the handler only while a connection to it exists
MouseEventUserFunction ==
    /\ Pending("mouse_event_user_function")
    /\ Handled(mouse_event_user_function(PS, call.event))

AssignUserFunc ==
    /\ Pending("assign_user_func")
    /\ Handled(assign_user_func(PS, call.func))

KeyOff ==
    /\ Pending("key_off")
    /\ Handled(key_off(PS))

SetFig ==
    /\ Pending("setFig")
    /\ Handled(setFig(PS, call.label))

Tracker ==
    /\ Pending("tracker")
    /\ Handled(tracker_call(PS, call.calc_context, call.fignum, call.plot_metadata,
                            call.text_metadata))

UpdatePlots ==
    /\ Pending("updatePlots")
    /\ Handled(updatePlots(PS, call.time))

GoBack ==
    /\ Pending("goBack")
    /\ Handled(goBack(PS))

MinusDt ==
    /\ Pending("minus_dt")
    /\ Handled(minus_dt(PS))

PlusDt ==
    /\ Pending("plus_dt")
    /\ Handled(plus_dt(PS))

ModifierKeyOn ==
    /\ Pending("modifier_key_on")
    /\ Handled(modifier_key_on(PS, call.key))

ModifierKeyOff ==
    /\ Pending("modifier_key_off")
    /\ Handled(modifier_key_off(PS))

CopyFig ==
    /\ Pending("copyFig")
    /\ Handled(copyFig(PS, call.newFig, call.oldFig))

ClearFigData ==
    /\ Pending("clearFigData")
    /\ Handled(clearFigData(PS, call.figure_name))

Clean ==
    /\ Pending("clean")
    /\ Handled(clean(PS))

\* the time bar is moved to val: Slider.set_val and its observer
SetVal ==
    /\ Pending("set_val")
    /\ Handled(set_val(PS, call.val))

Refresh ==
    /\ Pending("refresh")
    /\ Handled(refresh(PS))

MouseDownFn ==
    /\ Pending("mouseDownFn")
    /\ Handled(mouseDownFn(PS))

MouseMoveFn ==
    /\ Pending("mouseMoveFn")
    /\ Handled(mouseMoveFn(PS))

MouseUpFn ==
    /\ Pending("mouseUpFn")
    /\ Handled(mouseUpFn(PS, call.event))

vars == <<figs, max_fig_num, active_layer, currFig, mpl, subplot_lookup, shown,
          cb_axes, RS_line, gui, tracker, call, ret, synced>>

(***************************************************************************)
(* SpecData: addData calls on a figure F with the layers L and M, M being   *)
(* the active layer.                                                       *)
(***************************************************************************)
D1 == Nested(<< <<0, 1>>, <<0, 1>> >>)              \* [[0,1],[0,1]]
D2 == Nested(<< <<0, 1>>, <<1, 0>>, <<2, 2>> >>)    \* three sequences of two
DScalar == Scalar(5)                                \* 5
DEmpty == Nested(<<>>)                              \* []
DFlat2 == Flat(<<1, 2>>)                            \* [1,2]
DFlat3 == Flat(<<1, 2, 3>>)                         \* [1,2,3]
DOne == Nested(<< <<0, 1>> >>)                      \* [[0,1]]
DFour == Nested(<< <<0>>, <<0>>, <<0>>, <<0>> >>)   \* four sequences
DRagged == Nested(<< <<0, 1>>, <<0>> >>)            \* [[0,1],[0]]

DataInputs == {D1, D2, DScalar, DEmpty, DFlat2, DFlat3, DOne, DFour, DRagged}

\* 2 or 3 parallel sequences of one length
ValidData(d) ==
    /\ d.rank = 2
    /\ Len(d.rows) \in {2, 3}
    /\ \A i, j \in 1..Len(d.rows) : Len(d.rows[i]) = Len(d.rows[j])

S1 == [kind |-> "str", val |-> "r."]

\* figures F (layers L, M) and G (layer N); M of F is the active layer, G the
\* current figure
DataSetup ==
    LET a == addFig(Constructed, "F", "dom", TRUE).p
        b == addLayer(a, "L", None, TRUE, <<>>).p
        c == addLayer(b, "M", None, TRUE, <<>>).p
        d == addFig(c, "G", "dom", TRUE).p
    IN  addLayer(d, "N", None, FALSE, <<>>).p

AddDataCall(data, figure, layer, style, name, display, force) ==
    [op |-> "addData", data |-> data, figure |-> figure, layer |-> layer,
     subplot |-> NoSubplot, style |-> style, name |-> name, display |-> display,
     force |-> force]

AddDataCalls ==
    \* every shape of data, under a given and under a generated name
    {AddDataCall(d, "F", "L", NoStyle, n, TRUE, FALSE) :
        d \in DataInputs, n \in {"a", None}}
    \cup
    \* a name given again, with and without force
    {AddDataCall(d, "F", "L", st, "a", dp, fc) :
        d \in {D1, D2}, st \in {NoStyle, S1}, dp \in BOOLEAN, fc \in BOOLEAN}
    \cup
    {AddDataCall(D1, "F", "L", NoStyle, n, dp, FALSE) : n \in {"b", None}, dp \in BOOLEAN}
    \cup
    \* every way of naming the figure and the layer
    {AddDataCall(D1, f, l, NoStyle, n, TRUE, FALSE) :
        f \in {None, "F", "X"}, l \in {None, "L", "M", "N"}, n \in {"a", None}}

InitData ==
    /\ StateIs(DataSetup)
    /\ Idle
    /\ synced = FALSE

NextData ==
    \/ \E c \in AddDataCalls : Invoke(c)
    \/ AddData
    \/ Return

SpecData == InitData /\ [][NextData]_vars

(***************************************************************************)
(* Properties of addData.                                                  *)
(***************************************************************************)
\* an addData call c gets past the figure and layer resolution
Resolves(c) ==
    /\ resolveFig(PS, c.figure).exc = "ok"
    /\ IF c.layer = None THEN active_layer # <<>>
       ELSE resolveLayer(PS, resolveFig(PS, c.figure).figure, c.layer) = "ok"

\* the <<figure, layer>> whose struct a resolving addData call c writes to
Written(c) ==
    IF c.layer = None THEN active_layer
    ELSE <<resolveFig(PS, c.figure).figure, c.layer>>

\* the layer _updateTraj is then called on exists
Refreshable(c) == resolveLayer(PS, resolveFig(PS, c.figure).figure, Written(c)[2]) = "ok"

DataOf(fs, fl) == fs[fl[1]].layers[fl[2]].data

\* the data of every layer but fl
OtherData(fs, fl) ==
    [x \in {<<f, l>> : f \in DOMAIN fs, l \in {"L", "M", "N"}} \ {fl} |->
        IF x[2] \in DOMAIN fs[x[1]].layers THEN fs[x[1]].layers[x[2]].data ELSE <<>>]

C2_OneEntryPerCall ==
    [][(Ran("addData") /\ ret' = "ok" /\ call.name \notin DOMAIN DataOf(figs, Written(call)))
        => LET fl == Written(call)
               old == DataOf(figs, fl)
               new == DataOf(figs', fl)
           IN  /\ Cardinality(DOMAIN new) = Cardinality(DOMAIN old) + 1
               /\ DOMAIN old \subseteq DOMAIN new
               /\ \A n \in DOMAIN old : new[n] = old[n]
               /\ \A n \in DOMAIN new \ DOMAIN old : new[n].display = call.display
               /\ call.name # None => call.name \in DOMAIN new
               /\ OtherData(figs', fl) = OtherData(figs, fl)]_vars

\* a hidden entry under a generated name has been added to layer L while layer M
\* holds an entry
C2_AddedHidden ==
    /\ Done("addData") /\ ret = "ok"
    /\ call.name = None /\ ~call.display /\ call.layer = "L" /\ call.figure = "F"
    /\ DOMAIN figs["F"].layers["L"].data = {"u1"}
    /\ ~figs["F"].layers["L"].data["u1"].display
    /\ DOMAIN figs["F"].layers["M"].data # {}

\* C3: addData raises and changes nothing for every data that is not 2 or 3
\* parallel sequences of one length.
C3_ShapeRejected ==
    [][(Ran("addData") /\ ~ValidData(call.data))
        => (ret' # "ok" /\ UNCHANGED sceneVars)]_vars

(***************************************************************************)
(* SpecRender: render passes over a figure F with a data layer L, a text    *)
(* layer LT and a patch layer P, arranged on a grid of one row and two      *)
(* columns.                                                                *)
(***************************************************************************)
DP == Nested(<< <<0>>, <<0>> >>)      \* one patch centre: [[0],[0]]

Sub(pos, layers, scale) == SubplotSpec(pos, layers, <<"x", "y">>, scale)

\* both sub-plots list L
ArrBoth == <<Sub(<<1, 1>>, LayerList(<<"L", "LT", "P">>), "sc"),
             Sub(<<1, 2>>, LayerList(<<"L">>), "sc")>>
\* the second sub-plot is declared first
ArrLate == <<Sub(<<1, 2>>, LayerList(<<"L">>), "sc"),
             Sub(<<1, 1>>, LayerList(<<"L", "LT", "P">>), "sc")>>
\* the wildcard comes after a sub-plot that does not list L
ArrStar == <<Sub(<<1, 1>>, LayerList(<<"LT">>), "sc"),
             Sub(<<1, 2>>, AllLayers, "sc")>>
\* a singleton layer name
ArrStr == <<Sub(<<1, 1>>, OneLayer("LT"), "sc"),
            Sub(<<1, 2>>, LayerList(<<"L", "P">>), "sc")>>
\* no scale given
ArrNoScale == <<Sub(<<1, 1>>, LayerList(<<"L", "LT", "P">>), "absent")>>

Arrangements == {ArrBoth, ArrLate, ArrStar, ArrStr, ArrNoScale}

RenderSetup(arr) ==
    LET a == addFig(Constructed, "F", "dom", TRUE).p
        b == addLayer(a, "L", None, TRUE, <<>>).p
        c == addLayer(b, "LT", None, FALSE, "kind" :> "text").p
        d == addLayer(c, "P", None, FALSE, "kind" :> "patch").p
    IN  arrangeFig(d, <<1, 2>>, arr, None).p

RenderCalls ==
    {AddDataCall(D1, None, l, NoStyle, "a", dp, FALSE) : l \in {None, "LT"}, dp \in BOOLEAN}
    \cup
    {[AddDataCall(D1, None, None, NoStyle, "b", TRUE, FALSE) EXCEPT !.subplot = <<1, 2>>]}
    \cup
    {[op |-> "addText", x |-> 0, y |-> 0, text |-> "txt", name |-> "t", layer |-> l,
      subplot |-> NoSubplot, figure |-> None, display |-> TRUE, style |-> NoStyle,
      force |-> FALSE] : l \in {"LT", "L"}}
    \cup
    {[op |-> "addPatch", data |-> DP, figure |-> None, layer |-> l, subplot |-> NoSubplot,
      name |-> "p", display |-> TRUE, force |-> FALSE] : l \in {"P", "L"}}
    \cup
    {[op |-> "show", update |-> u, rebuild |-> rb] :
        u \in {"current", "all", None}, rb \in BOOLEAN}

InitRender ==
    /\ \E arr \in Arrangements : StateIs(RenderSetup(arr))
    /\ Idle
    /\ synced = FALSE

NextRender ==
    \/ \E c \in RenderCalls : Invoke(c)
    \/ AddData
    \/ AddText
    \/ AddPatch
    \/ Show
    \/ Return

SpecRender == InitRender /\ [][NextRender]_vars

(***************************************************************************)
(* Properties of the render passes.                                        *)
(***************************************************************************)
\* the render handles of every layer
Handles(fs) ==
    [x \in {<<f, l>> : f \in DOMAIN fs, l \in {"L", "LT", "P"}} |->
        IF x[2] \in DOMAIN fs[x[1]].layers THEN fs[x[1]].layers[x[2]].handles ELSE <<>>]

\* C4: a render pass without rebuild that follows a render pass without rebuild,
\* no other call in between, creates no render object: every handle is the
\* handle it was and no axes has a new artist, whatever the kinds of the layers.
C4_NoNewObjects ==
    [][(Ran("show") /\ call.update # None /\ ~call.rebuild /\ synced /\ ret' = "ok")
        => (mpl' = mpl /\ Handles(figs') = Handles(figs))]_vars

\* a sub-plot spec lists the layer: by its name or by the wildcard
Lists(layers, l) ==
    CASE layers.kind = "list" -> InSeq(l, layers.val)
      [] layers.kind = "str" -> layers.val[1] = l
      [] layers.kind = "star" -> TRUE

\* the sub-plot specs of arr that list the layer, by index
Listing(arr, l) == {i \in 1..Len(arr) : Lists(arr[i].layers, l)}

\* C5: an entry without a sub-plot that a render pass resolves is resolved to
\* the first sub-plot, in the order of its figure's arrangement, that lists the
\* entry's layer by name or by the wildcard.
C5_FirstListingSubplot ==
    [][Ran("show")
        => \A f \in DOMAIN figs : \A l \in DOMAIN figs[f].layers :
            \A n \in DOMAIN figs[f].layers[l].data :
              (/\ figs[f].layers[l].data[n].subplot = NoSubplot
               /\ figs'[f].layers[l].data[n].subplot # NoSubplot)
              => LET arr == figs[f].arrange
                 IN  /\ Listing(arr, l) # {}
                     /\ figs'[f].layers[l].data[n].subplot =
                          arr[CHOOSE i \in Listing(arr, l) :
                                \A j \in Listing(arr, l) : i <= j].pos]_vars

(***************************************************************************)
(* SpecTime: set_time on a GUI that holds an array of sample times.         *)
(***************************************************************************)
\* [0.0, 0.5, 1.0, 1.5]
HalfSteps == <<0, 5, 10, 15>>

\* the non-empty non-decreasing arrays of up to three times, and HalfSteps
TimeArrays ==
    {HalfSteps} \cup
    {T \in UNION {[1..n -> 0..MaxTime] : n \in 1..3} :
        \A i, j \in DOMAIN T : i < j => T[i] <= T[j]}

TimeCalls ==
    {[op |-> "set_time", time |-> tm] :
        tm \in {<<>>, <<9>>} \cup {<<x>> : x \in (0 - 1)..(MaxTime + 1)}}

InitTime ==
    /\ \E tms \in {<<>>} \cup {<<T>> : T \in TimeArrays} :
          StateIs([Constructed EXCEPT !.gui.times = tms])
    /\ Idle
    /\ synced = FALSE

NextTime ==
    \/ \E c \in TimeCalls : Invoke(c)
    \/ SetTime
    \/ Return

SpecTime == InitTime /\ [][NextTime]_vars

(***************************************************************************)
(* SpecSnap and SpecLine: the interaction modes on a master figure whose    *)
(* only sub-plot has callbacks, after a first show.                         *)
(***************************************************************************)
GUISetup ==
    LET a == addFig(Constructed, "Master", "dom", TRUE).p
        b == addLayer(a, "L", None, TRUE, <<>>).p
        c == arrangeFig(b, <<1, 1>>,
                        <<[Sub(<<1, 1>>, LayerList(<<"L">>), "sc") EXCEPT !.callbacks = TRUE]>>,
                        None).p
    IN  show(c, "current", TRUE).p

\* the samples of the trajectory
SnapPoints == << <<0, 0>>, <<2, 1>> >>

SnapCalls ==
    {[op |-> "key_on", key |-> k] : k \in {"s", " ", "l", "x"}}
    \cup
    {[op |-> "mouse_event_snap", ev |-> ev] :
        ev \in {<<>>} \cup {<<x, y>> : x \in 0..3, y \in 0..1}}

InitSnap ==
    /\ \E pts \in {<<>>, <<SnapPoints>>} : StateIs([GUISetup EXCEPT !.gui.points = pts])
    /\ Idle
    /\ synced = FALSE

NextSnap ==
    \/ \E c \in SnapCalls : Invoke(c)
    \/ KeyOn
    \/ MouseEventSnap
    \/ Return

SpecSnap == InitSnap /\ [][NextSnap]_vars

\* the positions a line is picked between
LinePicks == {<<0, 0>>, <<2, 0>>, <<0, 1>>}

LineCalls ==
    {[op |-> "key_on", key |-> "l"]}
    \cup
    {[op |-> "onselect_line", button |-> b, eclick |-> e1, erelease |-> e2] :
        b \in {1, 3}, e1 \in LinePicks, e2 \in LinePicks}
    \cup
    {[op |-> "line_GUI", gui_axes |-> 1, pt1 |-> Point2D(2, 1),
      pt2 |-> [Point2D(0, 0) EXCEPT !.coordnames = cn]] : cn \in {<<"x", "y">>, <<"u", "v">>}}

InitLine ==
    /\ StateIs(GUISetup)
    /\ Idle
    /\ synced = FALSE

NextLine ==
    \/ \E c \in LineCalls : Invoke(c)
    \/ KeyOn
    \/ OnselectLine
    \/ NewLine
    \/ Return

SpecLine == InitLine /\ [][NextLine]_vars

(***************************************************************************)
(* Properties of the GUI.                                                  *)
(***************************************************************************)
\* C6: on a non-empty array T of sample times, set_time(x) leaves the index i
\* with |T[i] - x| least, the lowest such index when several are equally near,
\* and the current time T[i].
C6_NearestSample ==
    [][(Ran("set_time") /\ call.time # <<>> /\ gui.times # <<>>)
        => /\ ret' = "ok"
           /\ gui'.ix # <<>>
           /\ LET T == gui.times[1]
                  x == call.time[1]
                  i == gui'.ix[1] + 1
              IN  /\ i \in DOMAIN T
                  /\ \A j \in DOMAIN T :
                        \/ abs(T[i] - x) < abs(T[j] - x)
                        \/ abs(T[i] - x) = abs(T[j] - x) /\ i <= j
                  /\ gui'.t = <<T[i]>>]_vars

\* set_time(0.9) on the times [0.0, 0.5, 1.0, 1.5] has selected index 2, time 1.0
C6_Example ==
    /\ Done("set_time") /\ ret = "ok"
    /\ call.time = <<9>>
    /\ gui.times = <<HalfSteps>>
    /\ gui.ix = <<2>>
    /\ gui.t = <<10>>

\* the release is farther than the tolerance from every sample
Far(ev) == \A i \in DOMAIN gui.points[1] : dist2(gui.points[1][i], ev) > SnapEps * SnapEps

\* C7: in the snap mode a release farther than the tolerance from every sample
\* returns normally, leaves no mode owner, removes the snap connection, creates
\* no context object and leaves the selected object and its marker as they were.
C7_FarReleaseAborts ==
    [][(/\ Ran("mouse_event_snap")
        /\ gui.mouse_wait_state_owner = "snap"
        /\ gui.points # <<>> /\ call.ev # <<>> /\ Far(call.ev))
        => /\ ret' = "ok"
           /\ gui'.mouse_wait_state_owner = None
           /\ gui.mouse_cid[1] \notin DOMAIN gui'.connected
           /\ gui'.context_objects = gui.context_objects
           /\ gui'.selected_object = gui.selected_object
           /\ gui'.selected_object_temphandle = gui.selected_object_temphandle]_vars

\* the two points a line is made from, by the call that makes it
Picked(c) ==
    IF c.op = "onselect_line" THEN <<c.eclick, c.erelease>>
    ELSE << <<c.pt1.x, c.pt1.y>>, <<c.pt2.x, c.pt2.y>> >>

\* C8: the line made from two picked points a and b has x1 <= x2; its endpoints
\* are b, a if a has the larger x and a, b otherwise; dx = x2 - x1 >= 0 and
\* dy = y2 - y1; length and angle are those of (dx, dy), so that the line from
\* (2,0) to (0,0) is (0,0)-(2,0) of length 2 and angle 0.
C8_LineNormalised ==
    [][((Ran("onselect_line") \/ Ran("line_GUI")) /\ ret' = "ok"
          /\ Len(gui'.context_objects) > Len(gui.context_objects))
        => LET ln == gui'.selected_object
               a == Picked(call)[1]
               b == Picked(call)[2]
           IN  /\ ln = gui'.context_objects[Len(gui'.context_objects)]
               /\ ln.x1 <= ln.x2
               /\ <<ln.x1, ln.y1>> = IF a[1] > b[1] THEN b ELSE a
               /\ <<ln.x2, ln.y2>> = IF a[1] > b[1] THEN a ELSE b
               /\ ln.dx = ln.x2 - ln.x1 /\ ln.dx >= 0
               /\ ln.dy = ln.y2 - ln.y1
               /\ ln.length = norm(ln.dx, ln.dy)
               /\ ln.ang = atan2(ln.dy, ln.dx)
               /\ (a = <<2, 0>> /\ b = <<0, 0>>)
                    => /\ <<ln.x1, ln.y1, ln.x2, ln.y2>> = <<0, 0, 2, 0>>
                       /\ ln.length = [sqrt |-> 4]
                       /\ ln.ang = [dir |-> <<0, 1>>]]_vars

\* the line picked from (2,0) to (0,0) has been made
C8_Swapped ==
    /\ Done("onselect_line") /\ ret = "ok"
    /\ call.button = 1 /\ call.eclick = <<2, 0>> /\ call.erelease = <<0, 0>>
    /\ gui.selected_object.kind = "line"
    /\ gui.selected_object.x1 = 0 /\ gui.selected_object.x2 = 2
    /\ gui.selected_object.length = [sqrt |-> 4]
    /\ gui.context_objects = <<gui.selected_object>>

(***************************************************************************)
(* Visibility: calls of toggleDisplay and setDisplay on figures F (layers  *)
(* L with the entries a and b, and M) and G (layer N), G current.          *)
(***************************************************************************)
VisSetup ==
    LET a == addData(DataSetup, D1, [exc |-> "ok", size |-> np_shape(D1)],
                     "F", "L", NoSubplot, NoStyle, "a", TRUE, FALSE).p
    IN  addData(a, D2, [exc |-> "ok", size |-> np_shape(D2)],
                "F", "L", NoSubplot, NoStyle, "b", TRUE, FALSE).p

ToggleCalls ==
    {[op |-> "toggleDisplay", names |-> ns, layer |-> l, figure |-> f] :
        ns \in {NoNames, StrName("a"), ListNames(<<"a">>), ListNames(<<"a", "b">>)},
        l \in {None, "L", "M", "N"}, f \in {None, "F", "G"}}

SetDisplayCalls ==
    {[op |-> "setDisplay", names |-> ns, display |-> d, layer |-> l, figure |-> f] :
        ns \in {StrName("a"), ListNames(<<"a">>), ListNames(<<"b", "a">>), ListNames(<<"z">>)},
        d \in BOOLEAN, l \in {None, "L", "M"}, f \in {None, "F"}}

InitVis ==
    /\ StateIs(VisSetup)
    /\ Idle
    /\ synced = FALSE

NextVis ==
    \/ \E c \in ToggleCalls \cup SetDisplayCalls : Invoke(c)
    \/ ToggleDisplay
    \/ SetDisplay
    \/ Return

SpecVis == InitVis /\ [][NextVis]_vars

\* the figure a visibility call c is about
VisFig(c) == IF c.figure = None THEN currFig ELSE c.figure

\* the entry names a visibility call c gives
Named(c) == {c.names.val[i] : i \in DOMAIN c.names.val}

\* the figure of c exists, and so do the layer and the entries it names
VisTargets(c) ==
    /\ VisFig(c) \in DOMAIN figs
    /\ (c.names.kind # "none" \/ c.layer # None)
          => /\ c.layer \in DOMAIN figs[VisFig(c)].layers
             /\ Named(c) \subseteq DOMAIN figs[VisFig(c)].layers[c.layer].data

\* the display flag of entry n in the layer of c, in the scene p
FlagOf(p, c, n) == p.figs[VisFig(c)].layers[c.layer].data[n].display

\* C9: toggling the display of existing entries changes their flags, and
\* toggling it again gives them the values they had before the first toggle.
C9_ToggleTwice ==
    [][(Ran("toggleDisplay") /\ call.names.kind # "none" /\ VisTargets(call))
        => /\ ret' = "ok"
           /\ \A n \in Named(call) : FlagOf(PS', call, n) = ~FlagOf(PS, call, n)
           /\ LET again == toggleDisplay(PS', call.names, call.layer, call.figure)
              IN  /\ again.exc = "ok"
                  /\ \A n \in Named(call) :
                        FlagOf(again.p, call, n) = FlagOf(PS, call, n)]_vars

\* the registry after a visibility call c that changes its targeted flags only
TargetedFlags(c) ==
    LET f == VisFig(c)
    IN  IF c.names.kind = "none"
        THEN IF c.layer = None
             THEN [figs EXCEPT ![f].display = ~figs[f].display]
             ELSE [figs EXCEPT ![f].layers[c.layer].display = ~figs[f].layers[c.layer].display]
        ELSE LET d == figs[f].layers[c.layer].data
             IN  [figs EXCEPT ![f].layers[c.layer].data =
                    [n \in DOMAIN d |->
                        IF n \in Named(c)
                        THEN [d[n] EXCEPT !.display =
                                IF c.op = "toggleDisplay" THEN ~d[n].display
                                ELSE c.display]
                        ELSE d[n]]]

\* C10: toggleDisplay negates the figure's flag (no names, no layer), the
\* layer's flag (layer only) or each named entry's flag; setDisplay sets each
\* named entry's flag to the value given; names is a string or a list of
\* strings; nothing else changes and no entry is removed.
C10_OnlyTargetedFlags ==
    [][((Ran("toggleDisplay") \/ Ran("setDisplay")) /\ VisTargets(call))
        => /\ ret' = "ok"
           /\ figs' = TargetedFlags(call)
           /\ UNCHANGED <<max_fig_num, active_layer, currFig, mpl, subplot_lookup,
                          shown, cb_axes, RS_line, gui>>]_vars

(***************************************************************************)
(* Changes to stored entries: figure F with the data layer L (entry a) and *)
(* the text layer LT (entry t), before and after a first render pass.      *)
(***************************************************************************)
EditSetup ==
    LET a == addData(RenderSetup(ArrBoth), D1, [exc |-> "ok", size |-> np_shape(D1)],
                     None, "L", NoSubplot, NoStyle, "a", TRUE, FALSE).p
    IN  addText(a, 0, 0, "old", "t", "LT", NoSubplot, None, TRUE, NoStyle, FALSE).p

\* the new point and the new position
P33 == Flat(<<3, 3>>)

AppendCalls ==
    {[op |-> "appendData", data |-> d, layer |-> l, name |-> n, figure |-> f] :
        d \in {APoint(2, 3), ASeq(<<2, 3>>), ASeq(<<2>>), ASeq(<<1, 2, 3>>)},
        l \in {"L", "LT", "X"}, n \in {"a", "t", "z"}, f \in {None, "F", "X"}}

SetPointCalls ==
    {[op |-> "setPoint", name |-> n, pt |-> P33, layer |-> l, figure |-> f] :
        n \in {"a", "t", "z"}, l \in {"L", "LT", "X"}, f \in {None, "X"}}

SetTextCalls ==
    {[op |-> "setText", name |-> n, text |-> "new", layer |-> l, pos |-> ps, figure |-> f] :
        n \in {"a", "t", "z"}, l \in {"L", "LT", "X"}, ps \in {<<>>, <<P33>>},
        f \in {None, "X"}}

\* dicts handed to setData for an entry: the data alone, and every field
OnlyData == [data |-> D2]
AllFields == [data |-> D2, style |-> S1, display |-> FALSE, subplot |-> <<1, 2>>]

SetDataCalls ==
    {[op |-> "setData", layer |-> l, figure |-> f, kwargs |-> kw] :
        l \in {"L", "X"}, f \in {None, "X"},
        kw \in {<< <<"data", << <<n, fl>> >> >> >> : n \in {"a", "z"},
                                                     fl \in {OnlyData, AllFields}}
               \cup {<< <<"display", FALSE>> >>, << <<"bogus", 1>> >>}}

InitEdit ==
    /\ \E sc \in {EditSetup, show(EditSetup, "current", TRUE).p} : StateIs(sc)
    /\ Idle
    /\ synced = FALSE

NextEdit ==
    \/ \E c \in AppendCalls \cup SetPointCalls \cup SetTextCalls \cup SetDataCalls : Invoke(c)
    \/ AppendData
    \/ SetPoint
    \/ SetText
    \/ SetData
    \/ Return

SpecEdit == InitEdit /\ [][NextEdit]_vars

\* the entry an editing call c names exists in the named layer of its figure
EntryExists(c) ==
    /\ VisFig(c) \in DOMAIN figs
    /\ c.layer \in DOMAIN figs[VisFig(c)].layers
    /\ c.name \in DOMAIN figs[VisFig(c)].layers[c.layer].data

\* the stored dict of the entry an editing call c names, in the registry fs
EntryOf(fs, c) == fs[VisFig(c)].layers[c.layer].data[c.name]

\* the registry fs without the trajectories of the layer of c
LessTrajs(fs, c) == [fs EXCEPT ![VisFig(c)].layers[c.layer].trajs = {}]

\* C11: appendData of a point (x, y) to an existing entry that holds an x and
\* a y sequence returns normally; afterwards each sequence is the previous one
\* with x, respectively y, appended, and every other entry and layer is as it
\* was.
C11_AppendsOnePoint ==
    [][(/\ Ran("appendData") /\ EntryExists(call) /\ point_ok(call.data)
        /\ "data" \in EntryKeys(EntryOf(figs, call))
        /\ EntryData(EntryOf(figs, call)).rank = 2
        /\ Len(EntryData(EntryOf(figs, call)).rows) = 2)
        => /\ ret' = "ok"
           /\ LET old == EntryData(EntryOf(figs, call)).rows
              IN  LessTrajs(figs', call) =
                     LessTrajs([figs EXCEPT ![VisFig(call)].layers[call.layer]
                                               .data[call.name].data.rows =
                                    <<Append(old[1], call.data.val[1]),
                                      Append(old[2], call.data.val[2])>>], call)]_vars

\* the render handle of the entry an editing call c names (in the registry fs)
HasHandle(fs, c) == c.name \in DOMAIN fs[VisFig(c)].layers[c.layer].handles
HandleOf(fs, c) == fs[VisFig(c)].layers[c.layer].handles[c.name]

\* the registry fs with the entry and the handle that c names taken out
Others(fs, c) ==
    [fs EXCEPT ![VisFig(c)].layers[c.layer].data =
                   [n \in DOMAIN @ \ {c.name} |-> @[n]],
               ![VisFig(c)].layers[c.layer].handles =
                   [n \in DOMAIN @ \ {c.name} |-> @[n]]]

\* C12: setPoint(name, pt) on an existing entry of a data layer, and
\* setText(name, text, pos) on an existing entry of a text layer, return
\* normally; the stored entry then holds the new value (pt; text, and pos when
\* given); a handle the entry has holds the same value as the stored entry; no
\* handle is made, and nothing else changes.
C12_StoredAndHandleAgree ==
    [][(/\ Ran("setPoint") \/ Ran("setText")
        /\ EntryExists(call)
        /\ "data" \in EntryKeys(EntryOf(figs, call))
        /\ figs[VisFig(call)].layers[call.layer].kind =
              (IF call.op = "setPoint" THEN "data" ELSE "text"))
        => /\ ret' = "ok"
           /\ Others(figs', call) = Others(figs, call)
           /\ HasHandle(figs', call) = HasHandle(figs, call)
           /\ IF call.op = "setPoint"
              THEN /\ EntryData(EntryOf(figs', call)) = call.pt
                   /\ HasHandle(figs', call)
                         => HandleOf(figs', call).data = EntryData(EntryOf(figs', call))
              ELSE /\ EntryOf(figs', call).text = call.text
                   /\ call.pos # <<>> => EntryOf(figs', call).data = call.pos[1]
                   /\ HasHandle(figs', call)
                         => /\ HandleOf(figs', call).text = EntryOf(figs', call).text
                            /\ HandleOf(figs', call).data = EntryOf(figs', call).data]_vars

\* the value stored under key k of an entry's dict
EntryField(e, k) == IF e.via = "setData" THEN e.fields[k] ELSE e[k]

\* the keys of an entry's dict that a render pass reads (buildLayer)
RenderKeys == {"display", "subplot", "style", "data"}

\* a setData call whose only keyword is data, with one dict for one existing entry
MergesOne(c) ==
    /\ VisFig(c) \in DOMAIN figs
    /\ c.layer \in DOMAIN figs[VisFig(c)].layers
    /\ Len(c.kwargs) = 1 /\ c.kwargs[1][1] = "data"
    /\ Len(c.kwargs[1][2]) = 1
    /\ c.kwargs[1][2][1][1] \in DOMAIN figs[VisFig(c)].layers[c.layer].data

\* C13: setData(layer, data={n: fields}) on an existing entry n returns
\* normally; every field of n that fields does not mention keeps its value,
\* the fields mentioned take the values given, the other entries of the layer
\* are unchanged, and n still has every field a render pass reads.
C13_MergeKeepsFields ==
    [][(Ran("setData") /\ MergesOne(call))
        => LET n == call.kwargs[1][2][1][1]
               fields == call.kwargs[1][2][1][2]
               old == figs[VisFig(call)].layers[call.layer].data
               new == figs'[VisFig(call)].layers[call.layer].data
           IN  /\ ret' = "ok"
               /\ DOMAIN new = DOMAIN old
               /\ \A m \in DOMAIN old \ {n} : new[m] = old[m]
               /\ \A k \in DOMAIN fields : EntryField(new[n], k) = fields[k]
               /\ \A k \in EntryKeys(old[n]) \ DOMAIN fields :
                     /\ k \in EntryKeys(new[n])
                     /\ EntryField(new[n], k) = EntryField(old[n], k)
               /\ RenderKeys \subseteq EntryKeys(old[n])
                     => RenderKeys \subseteq EntryKeys(new[n])]_vars

(***************************************************************************)
(* Arrangements: calls of arrangeFig on the figures F (arranged as a 1 x 2 *)
(* grid) and G (not arranged yet, current).                                *)
(***************************************************************************)
ArrangeSetup == addFig(RenderSetup(ArrBoth), "G", "dom", TRUE).p

\* position codes: '11', '12', '21', '13', '31'
Positions == {<<1, 1>>, <<1, 2>>, <<2, 1>>, <<1, 3>>, <<3, 1>>}

AxesVars == {<<"x", "y">>, <<"x", "y", "z">>, <<"x", "y", "z", "w">>}

\* the dicts passed as arrPlots: one sub-plot, or two at different positions
ArrPlots ==
    {<<SubplotSpec(ps, LayerList(<<"L">>), av, "sc")>> : ps \in Positions, av \in AxesVars}
    \cup
    {<<Sub(ps, LayerList(<<"L">>), "sc"), Sub(<<1, 1>>, AllLayers, "sc")>> :
        ps \in Positions \ {<<1, 1>>}}

ArrangeCalls ==
    {[op |-> "arrangeFig", shape |-> sh, arrPlots |-> ap, figure |-> f] :
        sh \in {<<1, 2>>, <<2, 2>>, <<2>>}, ap \in ArrPlots, f \in {None, "F", "X"}}

InitArrange ==
    /\ StateIs(ArrangeSetup)
    /\ Idle
    /\ synced = FALSE

NextArrange ==
    \/ \E c \in ArrangeCalls : Invoke(c)
    \/ ArrangeFig
    \/ Return

SpecArrange == InitArrange /\ [][NextArrange]_vars

\* C14: every sub-plot stored in a figure's arrangement has a position (r, c)
\* with 1 <= r <= rows and 1 <= c <= cols of the figure's shape, and at most
\* three axis variables.
C14_PositionsInGrid ==
    \A f \in DOMAIN figs :
        \A i \in 1..Len(figs[f].arrange) :
            /\ figs[f].arrange[i].pos[1] \in 1..figs[f].shape[1]
            /\ figs[f].arrange[i].pos[2] \in 1..figs[f].shape[2]
            /\ Len(figs[f].arrange[i].axes_vars) <= 3

AddFigCalls ==
    {[op |-> "addFig", label |-> lb, domain |-> dm, display |-> TRUE] :
        lb \in {"F", "G"}, dm \in {"dom", None}}

\* no keyword, and a keyword that is no layer property
LayerKwargs == {<<>>, "bogus" :> 1}

AddLayerCalls ==
    {[op |-> "addLayer", layer_name |-> l, figure |-> f, set_to_active |-> sa,
      kwargs |-> kw] :
        l \in {"L", "M"}, f \in {None, "F", "X"}, sa \in BOOLEAN, kw \in LayerKwargs}

FigDataCalls ==
    {AddDataCall(D1, f, l, NoStyle, n, TRUE, FALSE) :
        f \in {None, "F"}, l \in {None, "L"}, n \in {"a"}}

InitFigs ==
    /\ StateIs(Constructed)
    /\ Idle
    /\ synced = FALSE

NextFigs ==
    \/ \E c \in AddFigCalls \cup AddLayerCalls \cup FigDataCalls : Invoke(c)
    \/ AddFig
    \/ AddLayer
    \/ AddData
    \/ Return

SpecFigs == InitFigs /\ [][NextFigs]_vars

\* C16: addFig fails exactly when no domain is given or the label is already a
\* figure; a failed addFig changes nothing; a successful one adds the figure
\* and no other, leaves the other figures as they were, gives the new figure
\* an id no other figure has, and makes it the current figure.
C16_AddFig ==
    [][Ran("addFig")
        => /\ ret' # "ok" <=> (call.domain = None \/ call.label \in DOMAIN figs)
           /\ ret' # "ok" => UNCHANGED sceneVars
           /\ ret' = "ok"
                 => /\ DOMAIN figs' = DOMAIN figs \cup {call.label}
                    /\ \A f \in DOMAIN figs :
                          /\ figs'[f] = figs[f]
                          /\ figs'[call.label].fignum # figs'[f].fignum
                    /\ currFig' = call.label]_vars

\* a second figure has been added and is the current one
C16_SecondFigure ==
    /\ Done("addFig") /\ ret = "ok"
    /\ DOMAIN figs = {"F", "G"}
    /\ currFig = call.label
    /\ figs["F"].fignum # figs["G"].fignum

\* C17: addLayer with the name of a layer the figure has, or with a keyword
\* that is no layer property, fails and changes nothing.
C17_AddLayerRejects ==
    [][(/\ Ran("addLayer")
        /\ VisFig(call) \in DOMAIN figs
        /\ \/ call.layer_name \in DOMAIN figs[VisFig(call)].layers
           \/ ~(DOMAIN call.kwargs \subseteq LayerProps))
        => /\ ret' # "ok"
           /\ UNCHANGED sceneVars]_vars

\* addLayer has been refused for a layer that exists and holds an entry
C17_DuplicateRefused ==
    /\ Done("addLayer") /\ ret = "KeyError"
    /\ VisFig(call) \in DOMAIN figs
    /\ call.layer_name \in DOMAIN figs[VisFig(call)].layers
    /\ figs[VisFig(call)].layers[call.layer_name].data # <<>>

\* C18: a successful addLayer makes the new layer of its figure the active
\* layer, unless set_to_active is False, and then the active layer is as
\* before; addData without a layer puts its entry into the active layer (of
\* the active layer's figure) and changes the entries of no other layer.
C18_ActiveLayer ==
    [][/\ (Ran("addLayer") /\ ret' = "ok")
            => active_layer' = IF call.set_to_active
                               THEN <<VisFig(call), call.layer_name>>
                               ELSE active_layer
       /\ (Ran("addData") /\ call.layer = None /\ Resolves(call))
            => /\ OtherData(figs', active_layer) = OtherData(figs, active_layer)
               /\ (ValidData(call.data) /\ call.name # None
                     /\ ~name_exists(DataOf(figs, active_layer), call.name, call.force))
                    => /\ DOMAIN DataOf(figs', active_layer) =
                             DOMAIN DataOf(figs, active_layer) \cup {call.name}
                       /\ DataOf(figs', active_layer)[call.name].data = call.data]_vars

\* addData without a layer has put its entry into M of F, the layer made active
C18_IntoActive ==
    /\ Done("addData") /\ ret = "ok"
    /\ call.layer = None
    /\ active_layer = <<"F", "M">>
    /\ DOMAIN figs["F"].layers = {"L", "M"}
    /\ call.name \in DOMAIN figs["F"].layers["M"].data
    /\ figs["F"].layers["L"].data = <<>>

(***************************************************************************)
(* Layer kinds: addData, addText and addPatch on figure F with the data    *)
(* layer L (active), the text layer LT and the patch layer P.              *)
(***************************************************************************)
KindCalls ==
    {AddDataCall(D1, None, l, NoStyle, n, TRUE, fc) :
        l \in {None, "L", "LT", "P"}, n \in {"a", "b"}, fc \in BOOLEAN}
    \cup
    {[op |-> "addText", x |-> 0, y |-> 0, text |-> "txt", name |-> n, layer |-> l,
      subplot |-> NoSubplot, figure |-> None, display |-> TRUE, style |-> NoStyle,
      force |-> fc] : l \in {None, "L", "LT", "P"}, n \in {"a", "t"}, fc \in BOOLEAN}
    \cup
    {[op |-> "addPatch", data |-> DP, figure |-> None, layer |-> l, subplot |-> NoSubplot,
      name |-> n, display |-> TRUE, force |-> fc] :
        l \in {None, "L", "LT", "P"}, n \in {"a", "p"}, fc \in BOOLEAN}

InitKind ==
    /\ StateIs(RenderSetup(ArrBoth))
    /\ Idle
    /\ synced = FALSE

NextKind ==
    \/ \E c \in KindCalls : Invoke(c)
    \/ AddData
    \/ AddText
    \/ AddPatch
    \/ Return

SpecKind == InitKind /\ [][NextKind]_vars

\* the kind of the layer an add call c writes to
KindOf(c) == figs[Written(c)[1]].layers[Written(c)[2]].kind

\* the layer of c is of a kind the operation of c is not for
WrongKind(c) ==
    CASE c.op = "addText" -> KindOf(c) # "text"
      [] c.op = "addPatch" -> KindOf(c) # "patch"
      [] c.op = "addData" -> KindOf(c) = "text"

\* C19: addText on a layer that is not a text layer, addPatch on a layer that
\* is not a patch layer and addData on a text layer fail and add no entry.
C19_WrongKindRejected ==
    [][(/\ Ran("addText") \/ Ran("addPatch") \/ Ran("addData")
        /\ Resolves(call)
        /\ WrongKind(call))
        => /\ ret' # "ok"
           /\ figs' = figs]_vars

(***************************************************************************)
(* References: calls that name figures, layers and entries, on figure F    *)
(* (current) with the layers L (active, entry a), LT and P.                *)
(***************************************************************************)
RefSetup ==
    addData(RenderSetup(ArrBoth), D1, [exc |-> "ok", size |-> np_shape(D1)],
            None, "L", NoSubplot, NoStyle, "a", TRUE, FALSE).p

RefCalls ==
    {[op |-> "addLayer", layer_name |-> "Z", figure |-> f, set_to_active |-> sa,
      kwargs |-> <<>>] : f \in {"X"}, sa \in BOOLEAN}
    \cup
    {AddDataCall(D1, f, l, NoStyle, "b", TRUE, FALSE) :
        f \in {None, "X"}, l \in {None, "L", "X"}}
    \cup
    {[op |-> "setData", layer |-> l, figure |-> f, kwargs |-> kw] :
        l \in {"L", "X"}, f \in {None, "X"},
        kw \in {<< <<"data", << <<n, OnlyData>> >> >> >> : n \in {"a", "z"}}
               \cup {<< <<"display", FALSE>> >>}}
    \cup
    {[op |-> "setLayer", label |-> l, figure |-> f, kwargs |-> kw] :
        l \in {"L", "X"}, f \in {None, "X"},
        kw \in {<< <<"display", FALSE>> >>, << <<"zindex", 5>>, <<"bogus", 1>> >>}}
    \cup
    {[op |-> "appendData", data |-> ASeq(<<2, 3>>), layer |-> l, name |-> n, figure |-> f] :
        l \in {"L", "X"}, n \in {"a", "z"}, f \in {None, "X"}}
    \cup
    {[op |-> "set_active_layer", layer |-> l, figure |-> f] :
        l \in {"LT", "X"}, f \in {None, "X"}}
    \cup
    {[op |-> "setPoint", name |-> n, pt |-> P33, layer |-> l, figure |-> f] :
        n \in {"a", "z"}, l \in {"L", "X"}, f \in {None, "X"}}
    \cup
    {[op |-> "setText", name |-> n, text |-> "new", layer |-> l, pos |-> <<>>,
      figure |-> f] : n \in {"a", "z"}, l \in {"L", "X"}, f \in {None, "X"}}

InitRefs ==
    /\ StateIs(RefSetup)
    /\ Idle
    /\ synced = FALSE

NextRefs ==
    \/ \E c \in RefCalls : Invoke(c)
    \/ AddLayer
    \/ AddData
    \/ SetData
    \/ SetLayer
    \/ AppendData
    \/ SetActiveLayer
    \/ SetPoint
    \/ SetText
    \/ Return

SpecRefs == InitRefs /\ [][NextRefs]_vars

\* the operations C20 names
RefOps == {"addLayer", "addData", "setData", "setLayer", "appendData",
           "set_active_layer", "setPoint", "setText"}

\* the layer a call c names (None if it names none)
LayerRef(c) ==
    CASE c.op = "addLayer" -> None
      [] c.op = "setLayer" -> c.label
      [] OTHER -> c.layer

\* the entries a call c names
EntryRefs(c) ==
    CASE c.op \in {"appendData", "setPoint", "setText"} -> {c.name}
      [] c.op = "setData" ->
            {data_kwarg(c.kwargs)[i][1] : i \in 1..Len(data_kwarg(c.kwargs))}
      [] OTHER -> {}

\* the call c names a figure, a layer or an entry that does not exist
UnknownRef(c) ==
    \/ VisFig(c) \notin DOMAIN figs
    \/ /\ VisFig(c) \in DOMAIN figs
       /\ LayerRef(c) # None
       /\ \/ LayerRef(c) \notin DOMAIN figs[VisFig(c)].layers
          \/ /\ LayerRef(c) \in DOMAIN figs[VisFig(c)].layers
             /\ ~(EntryRefs(c) \subseteq DOMAIN figs[VisFig(c)].layers[LayerRef(c)].data)

\* C20: addLayer, addData, setData, setLayer, appendData, set_active_layer,
\* setPoint and setText called with the name of a figure, a layer or an entry
\* that does not exist fail, and leave the registry, the current figure and
\* the active layer as they were.
C20_UnknownRejected ==
    [][(/\ \E op \in RefOps : Ran(op)
        /\ UnknownRef(call))
        => /\ ret' # "ok"
           /\ figs' = figs
           /\ currFig' = currFig
           /\ active_layer' = active_layer]_vars

(***************************************************************************)
(* SpecStep: the time controls of the master window built with times: the  *)
(* slider, the -dt and +dt buttons, the Back button, and the key presses   *)
(* and releases that reach modifier_key_on and modifier_key_off.           *)
(***************************************************************************)
\* the sample times: StepLen samples two tenths apart, and the first three
StepTimes == {[i \in 1..n |-> 2 * (i - 1)] : n \in {3, StepLen}}

\* buildPlotter2D(with_times=True): set_time((tMin + tMax)/2.) and the slider
StepSetup(T) ==
    LET r == set_time([GUISetup EXCEPT !.gui.times = <<T>>],
                      <<(T[1] + T[Len(T)]) \div 2>>).p
    IN  [r EXCEPT !.gui.timeBar = r.gui.t]

\* every key press reaches modifier_key_on with the key pressed
StepKeys == {"shift", "control", "l"}

StepCalls ==
    {[op |-> "updatePlots", time |-> <<x>>] : x \in {0, 7, 2 * StepLen}}
    \cup {[op |-> o] : o \in {"goBack", "minus_dt", "plus_dt", "modifier_key_off"}}
    \cup {[op |-> "modifier_key_on", key |-> k] : k \in StepKeys}

InitStep ==
    /\ \E T \in StepTimes : StateIs(StepSetup(T))
    /\ Idle
    /\ synced = FALSE

NextStep ==
    \/ \E c \in StepCalls : Invoke(c)
    \/ UpdatePlots
    \/ GoBack
    \/ MinusDt
    \/ PlusDt
    \/ ModifierKeyOn
    \/ ModifierKeyOff
    \/ Return

SpecStep == InitStep /\ [][NextStep]_vars

\* the step of the modifier held
StepOf(m) == IF m = "shift" THEN 10 ELSE IF m = "control" THEN 1 ELSE 5

\* v kept within lo..hi
clamp(v, lo, hi) == IF v < lo THEN lo ELSE IF v > hi THEN hi ELSE v

\* C21: once a current index exists, -dt and +dt never fail and leave the index
\* clamp(ix - d, 0, len(times)-1) and clamp(ix + d, 0, len(times)-1), d being 5,
\* 10 with shift held and 1 with control held; the index stays in the range.
C21_StepClamped ==
    [][((Ran("minus_dt") \/ Ran("plus_dt")) /\ gui.ix # <<>>)
        => /\ ret' = "ok"
           /\ gui'.ix = <<clamp(gui.ix[1] + (IF call.op = "plus_dt" THEN 1 ELSE 0 - 1)
                                            * StepOf(gui._key_mod),
                                0, Len(gui.times[1]) - 1)>>
           /\ gui'.ix[1] \in 0..(Len(gui'.times[1]) - 1)]_vars

\* C22: Back with a previous index p leaves the index p, the time times[p] and
\* the index left as the previous index; with none recorded it changes nothing.
C22_GoBack ==
    [][Ran("goBack")
        => IF gui._last_ix = <<>> THEN UNCHANGED <<sceneVars>>
           ELSE /\ ret' = "ok"
                /\ gui'.ix = gui._last_ix
                /\ gui'.t = <<gui.times[1][gui._last_ix[1] + 1]>>
                /\ gui'._last_ix = gui.ix]_vars

\* Back has been pressed with a previous index recorded
C22_WentBack ==
    /\ Done("goBack") /\ ret = "ok"
    /\ gui._last_ix # <<>> /\ gui.ix # <<>>
    /\ gui.ix # gui._last_ix
    /\ Len(gui.times[1]) = StepLen

(***************************************************************************)
(* SpecModes: the key and pointer events of the master window (GUISetup),  *)
(* with or without a trajectory, a domain criterion function and a user    *)
(* function.                                                               *)
(***************************************************************************)
\* ['l', 's', ' '] + [dom_key]
ModeKeys == {"l", "s", " ", "."}

ModeCalls ==
    {[op |-> "key_on", key |-> k] : k \in ModeKeys \cup {"x"}}
    \cup {[op |-> "key_off"]}
    \cup
    {[op |-> "mouse_event_snap", ev |-> ev] : ev \in {<<>>, <<0, 0>>, <<3, 1>>}}
    \cup
    {[op |-> "mouse_event_user_function", event |-> [inaxes |-> ax, pos |-> <<0, 1>>]] :
        ax \in {0, 1}}
    \cup
    {[op |-> "onselect_line", button |-> b, eclick |-> <<2, 0>>, erelease |-> <<0, 0>>] :
        b \in {1, 3}}

\* a GUI with nothing given; one with a trajectory, a domain criterion function
\* and a user function that returns; one with a user function that raises
ModeSetups ==
    {[GUISetup EXCEPT !.gui.points = <<>>],
     [GUISetup EXCEPT !.gui.points = <<SnapPoints>>, !.gui.domain_func = "f",
                      !.gui.user_func = "returns"],
     [GUISetup EXCEPT !.gui.points = <<SnapPoints>>, !.gui.user_func = "raises"]}

InitModes ==
    /\ \E p \in ModeSetups : StateIs(p)
    /\ Idle
    /\ synced = FALSE

NextModes ==
    \/ \E c \in ModeCalls : Invoke(c)
    \/ KeyOn
    \/ KeyOff
    \/ MouseEventSnap
    \/ MouseEventUserFunction
    \/ OnselectLine
    \/ Return

SpecModes == InitModes /\ [][NextModes]_vars

\* the mode of the controller: None is Idle
Mode == gui.mouse_wait_state_owner

\* C23: a primary-button gesture through the active selector returns normally,
\* appends exactly one object to the context list, makes that object the
\* selected object, deactivates the selector and leaves no mode owner; no other
\* event changes the context list.
C23_OneContextObject ==
    [][/\ (Ran("onselect_line") /\ call.button = 1)
            => /\ ret' = "ok"
               /\ gui'.context_objects = Append(gui.context_objects, gui'.selected_object)
               /\ gui'.selected_object.kind = "line"
               /\ ~RS_line'.active
               /\ gui'.mouse_wait_state_owner = None
       /\ gui'.context_objects # gui.context_objects
            => Ran("onselect_line") /\ call.button = 1]_vars

\* a line has been picked through the selector
C23_LinePicked ==
    /\ Done("onselect_line") /\ ret = "ok" /\ call.button = 1
    /\ Len(gui.context_objects) = 1
    /\ gui.selected_object = gui.context_objects[1]
    /\ ~RS_line.active /\ Mode = None

\* C24: the domain key pressed while no criterion function is registered
\* returns normally and leaves the mode, the canvas connections and the
\* selector as they were; the mode becomes 'domain' only by the domain key
\* pressed while a criterion function is registered.
C24_DomainRefused ==
    [][/\ (Ran("key_on") /\ call.key = "." /\ gui.domain_func = None)
            => /\ ret' = "ok"
               /\ gui'.mouse_wait_state_owner = gui.mouse_wait_state_owner
               /\ gui'.connected = gui.connected
               /\ RS_line' = RS_line
       /\ (gui'.mouse_wait_state_owner = "domain" /\ gui.mouse_wait_state_owner # "domain")
            => Ran("key_on") /\ call.key = "." /\ gui.domain_func # None]_vars

\* the domain key has been pressed in Idle with no criterion function
C24_Refused ==
    /\ Done("key_on") /\ ret = "ok" /\ call.key = "."
    /\ gui.domain_func = None
    /\ Mode = None

\* the gesture the handler is called for fails
FailedGesture ==
    \/ /\ call.op = "mouse_event_snap"
       /\ \/ gui.points = <<>>
          \/ call.ev = <<>>
          \/ Far(call.ev)
    \/ /\ call.op = "mouse_event_user_function"
       /\ \/ ~InSeq(call.event.inaxes, cb_axes)
          \/ gui.user_func # "returns"

\* the handlers of key and pointer events
EventOps == {"key_on", "key_off", "onselect_line", "mouse_event_snap",
             "mouse_event_user_function"}

\* C25: no handler of a key or pointer event raises, and a failed gesture (snap
\* with no trajectory, no coordinates or no sample nearby; user function on no
\* managed axes, not assigned or failing) leaves the controller in Idle.
C25_NoEscape ==
    [][(\E op \in EventOps : Ran(op))
        => /\ ret' = "ok"
           /\ FailedGesture => gui'.mouse_wait_state_owner = None]_vars

\* C26: a mode-switch key pressed in a mode other than Idle leaves the
\* controller in Idle.
C26_KeyCancels ==
    [][(Ran("key_on") /\ call.key \in ModeKeys /\ gui.mouse_wait_state_owner # None)
        => gui'.mouse_wait_state_owner = None]_vars

\* the modal pointer handlers that are live: the selector and the connections
LiveHandlers ==
    (IF RS_line.active THEN {<<"line", 0>>} ELSE {})
    \cup {<<gui.connected[cid], cid>> : cid \in DOMAIN gui.connected}

\* the mode a live handler belongs to
ModeOf(h) ==
    CASE h[1] = "line" -> "line"
      [] h[1] = "mouse_event_snap" -> "snap"
      [] h[1] = "mouse_event_user_function" -> "user_func"

\* C27: at most one modal pointer handler is live, it is the handler of the
\* current mode, and none is live in Idle.
C27_OneLiveHandler ==
    /\ Cardinality(LiveHandlers) <= 1
    /\ \A h \in LiveHandlers : ModeOf(h) = Mode

(***************************************************************************)
(* SpecShow: show on two figures, F (layer L, entry a) and G (layer N,     *)
(* entry c), each arranged as one sub-plot with a scale that lists its     *)
(* layer; G, added last, is current.                                       *)
(***************************************************************************)
ShowSetup ==
    LET a == addFig(Constructed, "F", "dom", TRUE).p
        b == addLayer(a, "L", None, TRUE, <<>>).p
        c == arrangeFig(b, <<1, 1>>, <<Sub(<<1, 1>>, LayerList(<<"L">>), "sc")>>, None).p
        d == addData(c, D1, [exc |-> "ok", size |-> np_shape(D1)],
                     None, None, NoSubplot, NoStyle, "a", TRUE, FALSE).p
        e == addFig(d, "G", "dom", TRUE).p
        f == addLayer(e, "N", None, TRUE, <<>>).p
        g == arrangeFig(f, <<1, 1>>, <<Sub(<<1, 1>>, LayerList(<<"N">>), "sc")>>, None).p
    IN  addData(g, D2, [exc |-> "ok", size |-> np_shape(D2)],
                None, None, NoSubplot, NoStyle, "c", TRUE, FALSE).p

ShowCalls ==
    {[op |-> "show", update |-> u, rebuild |-> rb] :
        u \in {"current", "all"}, rb \in BOOLEAN}
    \cup {[op |-> "setFig", label |-> f] : f \in {"F", "G"}}
    \cup {[op |-> "setLayer", label |-> "N", figure |-> "G",
            kwargs |-> << <<"display", d>> >>] : d \in BOOLEAN}

InitShow ==
    /\ StateIs(ShowSetup)
    /\ Idle
    /\ synced = FALSE

NextShow ==
    \/ \E c \in ShowCalls : Invoke(c)
    \/ Show
    \/ SetFig
    \/ SetLayer
    \/ Return

SpecShow == InitShow /\ [][NextShow]_vars

\* the figures a show call selects
Selected(c) == IF c.update = "current" THEN {currFig} ELSE DOMAIN figs

\* every sub-plot of figure f has its axes
Rendered(f) == \A i \in 1..Len(figs[f].arrange) : figs[f].arrange[i].axes_obj # 0

\* the handles of the registry fs, as <<figure, handle>>
FigHandles(fs) ==
    UNION {UNION {{<<f, fs[f].layers[l].handles[n]>> : n \in DOMAIN fs[f].layers[l].handles} :
                     l \in DOMAIN fs[f].layers} : f \in DOMAIN fs}

\* C28: show(update) on figures that are each arranged with their own layers
\* changes no record of a figure it does not select, succeeds whenever the
\* figures it selects are rebuilt or have their axes, whatever the state of the
\* others, and leaves every handle of a figure on axes of that figure.
C28_ShowSelected ==
    [][Ran("show")
        => /\ \A f \in DOMAIN figs \ Selected(call) : figs'[f] = figs[f]
           /\ (call.rebuild \/ \A f \in Selected(call) : Rendered(f)) => ret' = "ok"
           /\ \A fh \in FigHandles(figs') :
                 mpl'.axes[fh[2].ax].fig = figs'[fh[1]].fignum]_vars

(***************************************************************************)
(* SpecTrack: registrations with the tracker of two calculation contexts   *)
(* on two figure numbers.                                                  *)
(***************************************************************************)
TrackCalls ==
    {[op |-> "tracker", calc_context |-> c, fignum |-> n, plot_metadata |-> pm,
      text_metadata |-> tm] :
        c \in {"A", "B"}, n \in {1, 2}, pm \in {None, "xys"}, tm \in {None, "attr"}}

InitTrack ==
    /\ StateIs(Constructed)
    /\ Idle
    /\ synced = FALSE

NextTrack ==
    \/ \E c \in TrackCalls : Invoke(c)
    \/ Tracker
    \/ Return

SpecTrack == InitTrack /\ [][NextTrack]_vars

\* the figure numbers the context c uses in the tracker tr
FigsOf(tr, c) == IF c \in DOMAIN tr.tracked THEN DOMAIN tr.tracked[c].figs ELSE {}

\* the contexts other than c that use the figure number n
OtherUsers(tr, c, n) == {d \in DOMAIN tr.tracked \ {c} : n \in FigsOf(tr, d)}

\* C29: a registration of a figure number that another context uses fails and
\* changes nothing of the tracker, and after every registration no figure
\* number is used by two contexts.
C29_OneContextPerFigure ==
    [][Ran("tracker")
        => /\ OtherUsers(tracker, call.calc_context, call.fignum) # {}
                => (ret' # "ok" /\ tracker' = tracker)
           /\ \A c \in DOMAIN tracker'.tracked :
                 \A n \in FigsOf(tracker', c) : OtherUsers(tracker', c, n) = {}]_vars

(***************************************************************************)
(* SpecSync: render passes after changes to the entries of figure F (data  *)
(* layer L with entry a, text layer LT with entry t), rendered once.       *)
(***************************************************************************)
SyncSetup == show(EditSetup, "current", TRUE).p

SyncCalls ==
    {AddDataCall(D2, None, "L", NoStyle, "a", dp, TRUE) : dp \in BOOLEAN}
    \cup {[op |-> "appendData", data |-> ASeq(<<2, 3>>), layer |-> "L", name |-> "a",
           figure |-> None]}
    \cup {[op |-> "setLayer", label |-> l, figure |-> None,
           kwargs |-> << <<"display", d>> >>] : l \in {"L", "LT"}, d \in BOOLEAN}
    \cup {[op |-> "setDisplay", names |-> StrName("a"), display |-> d, layer |-> "L",
           figure |-> None] : d \in BOOLEAN}
    \cup {[op |-> "show", update |-> "current", rebuild |-> rb] : rb \in BOOLEAN}

InitSync ==
    /\ StateIs(SyncSetup)
    /\ Idle
    /\ synced = FALSE

NextSync ==
    \/ \E c \in SyncCalls : Invoke(c)
    \/ AddData
    \/ AppendData
    \/ SetLayer
    \/ SetDisplay
    \/ Show
    \/ Return

SpecSync == InitSync /\ [][NextSync]_vars

\* C30: a pass without rebuild over a displayed figure that returns normally
\* leaves, in every displayed layer, each entry that had a handle with that
\* same handle, visible as the entry's display flag says and holding the
\* entry's data; in a layer that is not displayed every handle is invisible and
\* no handle is new.
C30_HandlesFollowEntries ==
    [][(Ran("show") /\ ~call.rebuild /\ ret' = "ok" /\ figs[currFig].display)
        => \A l \in DOMAIN figs[currFig].layers :
              LET old == figs[currFig].layers[l]
                  new == figs'[currFig].layers[l]
              IN  IF old.display
                  THEN \A n \in DOMAIN old.handles :
                          /\ n \in DOMAIN new.handles
                          /\ new.handles[n].id = old.handles[n].id
                          /\ new.handles[n].visible = new.data[n].display
                          /\ new.handles[n].data = EntryData(new.data[n])
                  ELSE /\ DOMAIN new.handles = DOMAIN old.handles
                       /\ \A n \in DOMAIN new.handles : ~new.handles[n].visible]_vars

(***************************************************************************)
(* SpecPlay: the playback controls of a master window built with times.    *)
(* The figure Master has the layers T (plotted against time), D (dynamic,   *)
(* with a dynamic function), E (dynamic, no function) and N (not dynamic,   *)
(* a function registered under its name); T and D have a sub-plot each.     *)
(***************************************************************************)
PlayTimes == <<0, 2, 4>>

PlayBase ==
    LET a == addFig(Constructed, "Master", "dom", TRUE).p
        b == addLayer(a, "T", None, TRUE, <<>>).p
        c == addLayer(b, "D", None, FALSE,
                      ("dynamic" :> TRUE) @@ ("axes_vars" :> <<"x", "y">>)).p
        d == addLayer(c, "E", None, FALSE, "dynamic" :> TRUE).p
        e == addLayer(d, "N", None, FALSE, <<>>).p
        f == arrangeFig(e, <<1, 2>>,
                        <<SubplotSpec(<<1, 1>>, LayerList(<<"T">>), <<"t", "y">>, "sc"),
                          SubplotSpec(<<1, 2>>, LayerList(<<"D">>), <<"x", "y">>, "sc")>>,
                        None).p
    IN  [f EXCEPT !.gui.times = <<PlayTimes>>, !.gui.dynamicPlotFns = {"D", "N"}]

\* with the dynamic functions registered, and with none
PlaySetups ==
    {buildPlotter2D(PlayBase, TRUE, TRUE).p,
     buildPlotter2D([PlayBase EXCEPT !.gui.dynamicPlotFns = {}], TRUE, TRUE).p}

PlayCalls ==
    {[op |-> "set_time", time |-> tm] : tm \in {<<>>, <<0>>, <<3>>}}
    \cup {[op |-> "set_val", val |-> x] : x \in {1, 4}}
    \cup {[op |-> o] : o \in {"goBack", "minus_dt", "plus_dt", "refresh",
                              "modifier_key_off"}}
    \cup {[op |-> "modifier_key_on", key |-> k] : k \in {"shift", "control"}}
    \cup {[op |-> "mouseUpFn", event |-> [inaxes |-> 1, pos |-> <<x, 0>>]] : x \in {0, 3}}

InitPlay ==
    /\ \E p \in PlaySetups : StateIs(p)
    /\ Idle
    /\ synced = FALSE

NextPlay ==
    \/ \E c \in PlayCalls : Invoke(c)
    \/ SetTime
    \/ SetVal
    \/ GoBack
    \/ MinusDt
    \/ PlusDt
    \/ Refresh
    \/ ModifierKeyOn
    \/ ModifierKeyOff
    \/ MouseUpFn
    \/ Return

SpecPlay == InitPlay /\ [][NextPlay]_vars

\* the index of the sample nearest to x
Nearest(x) == np_argmin([k \in DOMAIN gui.times[1] |-> abs(gui.times[1][k] - x)])

\* the calls of the dynamic functions counted in b with the arguments e
CallsIn(b, e) == IF e \in DOMAIN b THEN b[e] ELSE 0

\* the calls with the arguments e made by the step
NewCalls(e) == CallsIn(gui'.fn_calls, e) - CallsIn(gui.fn_calls, e)

\* C31: set_time with no argument, or with a time whose nearest sample is the
\* current one, changes nothing at all; otherwise the previous index becomes
\* the old current index, the current index and time become the nearest sample,
\* every time marker is moved to the time given, the time bar shows the time
\* given, and a time bar that showed it already is not set (its observer does
\* not run).
C31_SetTime ==
    [][Ran("set_time")
        => IF call.time = <<>> \/ <<Nearest(call.time[1])>> = gui.ix
           THEN ret' = "ok" /\ UNCHANGED sceneVars
           ELSE /\ ret' = "ok"
                /\ gui'._last_ix = gui.ix
                /\ gui'.ix = <<Nearest(call.time[1])>>
                /\ gui'.t = <<gui.times[1][Nearest(call.time[1]) + 1]>>
                /\ DOMAIN gui'.timeLines = DOMAIN gui.timeLines
                /\ \A k \in DOMAIN gui'.timeLines : gui'.timeLines[k] = call.time[1]
                /\ gui'.timeBar = <<call.time[1]>>
                /\ gui.timeBar = <<call.time[1]>> => gui'.fn_calls = gui.fn_calls]_vars

\* set_time has moved the playback from the middle sample to the first
C31_Moved ==
    /\ Done("set_time") /\ ret = "ok" /\ call.time = <<0>>
    /\ gui.ix = <<0>> /\ gui._last_ix = <<1>> /\ gui.t = <<0>>
    /\ gui.timeLines = <<0>> /\ gui.timeBar = <<0>>

\* the calls one dispatch with (time, hard_reset) owes: one to the function of
\* every layer flagged dynamic whose name has a function registered
Owed(time, hard_reset) ==
    {[fig |-> f, layer |-> l, time |-> time, hard_reset |-> hard_reset] :
        <<f, l>> \in {fl \in UNION {{<<g, k>> : k \in DOMAIN figs[g].layers} :
                                       g \in DOMAIN figs} :
                         /\ figs[fl[1]].layers[fl[2]].dynamic
                         /\ fl[2] \in gui.dynamicPlotFns}}

\* C32: the Refresh control calls, once each and with (current time, whether
\* shift is held), the functions of the layers flagged dynamic that have one
\* registered, and no other function; every call made by a handler that
\* updates the time is to such a layer, with (the time left, FALSE), and each
\* such layer receives as many as the others.
C32_Dispatch ==
    [][/\ Ran("refresh")
            => /\ ret' = "ok"
               /\ \A e \in DOMAIN gui'.fn_calls :
                     NewCalls(e) = IF e \in Owed(gui.t, gui._key_mod = "shift") THEN 1 ELSE 0
               /\ Owed(gui.t, gui._key_mod = "shift") \subseteq DOMAIN gui'.fn_calls
       /\ (ret = "pending" /\ ret' # "pending" /\ call.op # "refresh")
            => /\ \A e \in DOMAIN gui'.fn_calls :
                     NewCalls(e) > 0 => e \in Owed(gui'.t, FALSE)
               /\ \A e1, e2 \in Owed(gui'.t, FALSE) : NewCalls(e1) = NewCalls(e2)]_vars

\* Refresh has been pressed with shift held and the function of D called
C32_HardReset ==
    /\ Done("refresh") /\ ret = "ok" /\ gui._key_mod = "shift"
    /\ CallsIn(gui.fn_calls, [fig |-> "Master", layer |-> "D", time |-> gui.t,
                              hard_reset |-> TRUE]) = 1
    /\ \A e \in DOMAIN gui.fn_calls : e.layer = "D"

\* C36: a handler that holds no dispatch of its own (set_time, the step
\* controls, a click) runs without a dynamic function being called, no other
\* callback being started within it; a handler that updates the plots (Back,
\* the time bar) and changes the index calls every dynamic function owed
\* exactly once.
C36_NoNesting ==
    [][/\ (\E op \in {"set_time", "minus_dt", "plus_dt", "mouseUpFn"} : Ran(op))
            => gui'.fn_calls = gui.fn_calls
       /\ ((Ran("goBack") \/ Ran("set_val")) /\ gui'.ix # gui.ix)
            => \A e \in Owed(gui'.t, FALSE) : NewCalls(e) = 1]_vars

\* C37: a current index that is set is an index of the sample times and the
\* current time is the sample there; a previous index that is set is an index
\* of the sample times other than the current index.
C37_PlaybackState ==
    /\ gui.ix # <<>>
        => /\ gui.ix[1] \in 0..(Len(gui.times[1]) - 1)
           /\ gui.t = <<gui.times[1][gui.ix[1] + 1]>>
    /\ gui._last_ix # <<>>
        => /\ gui._last_ix[1] \in 0..(Len(gui.times[1]) - 1)
           /\ gui._last_ix # gui.ix

\* the -dt control has moved the playback from the middle sample to the first
C37_Stepped ==
    /\ Done("minus_dt") /\ ret = "ok"
    /\ gui.ix = <<0>> /\ gui._last_ix = <<1>> /\ gui.t = <<0>>

(***************************************************************************)
(* SpecPointer: the always-active pointer handlers of a master window,     *)
(* built with and without times.  The figure Master has four sub-plots:    *)
(* T against time, D (a dynamic function, axis variables given), Q (no      *)
(* dynamic function, not against time) and E (a dynamic function, no axis   *)
(* variables given to the layer).                                          *)
(***************************************************************************)
PointerBase ==
    LET a == addFig(Constructed, "Master", "dom", TRUE).p
        b == addLayer(a, "T", None, TRUE, <<>>).p
        c == addLayer(b, "D", None, FALSE, "axes_vars" :> <<"x", "y">>).p
        d == addLayer(c, "Q", None, FALSE, <<>>).p
        e == addLayer(d, "E", None, FALSE, <<>>).p
        f == arrangeFig(e, <<2, 2>>,
                        <<SubplotSpec(<<1, 1>>, LayerList(<<"T">>), <<"t", "y">>, "sc"),
                          SubplotSpec(<<1, 2>>, LayerList(<<"D">>), <<"x", "y">>, "sc"),
                          SubplotSpec(<<2, 1>>, LayerList(<<"Q">>), <<"x", "y">>, "sc"),
                          SubplotSpec(<<2, 2>>, LayerList(<<"E">>), <<"x", "y">>, "sc")>>,
                        None).p
    IN  [f EXCEPT !.gui.times = <<PlayTimes>>, !.gui.dynamicPlotFns = {"D", "E"}]

PointerSetups == {buildPlotter2D(PointerBase, wt, TRUE).p : wt \in BOOLEAN}

\* releases outside every axes, on each sub-plot and on the Refresh button
PointerCalls ==
    {[op |-> o] : o \in {"mouseDownFn", "mouseMoveFn"}}
    \cup {[op |-> "mouseUpFn", event |-> [inaxes |-> 0, pos |-> <<>>]]}
    \cup {[op |-> "mouseUpFn", event |-> [inaxes |-> ax, pos |-> <<x, 1>>]] :
             ax \in {1, 2, 3, 4, 0 - 5}, x \in {0, 4}}

InitPointer ==
    /\ \E p \in PointerSetups : StateIs(p)
    /\ Idle
    /\ synced = FALSE

NextPointer ==
    \/ \E c \in PointerCalls : Invoke(c)
    \/ MouseDownFn
    \/ MouseMoveFn
    \/ MouseUpFn
    \/ Return

SpecPointer == InitPointer /\ [][NextPointer]_vars

\* the playback state
Playback == <<gui.t, gui.ix, gui._last_ix>>

\* the axes of the designated dynamic plots
DynamicAxes == {gui.dynamicPlots[l] : l \in DOMAIN gui.dynamicPlots}

\* the axes of the sub-plots plotted against time
TimeAxes ==
    UNION {{figs[f].arrange[k].axes_obj :
               k \in {j \in 1..Len(figs[f].arrange) :
                         figs[f].arrange[j].axes_vars[1] \in TimeNames}} :
           f \in DOMAIN figs}

\* the axes of the widgets
WidgetAxes == {gui.widgets[w] : w \in DOMAIN gui.widgets}

\* C34: a release that is a true click (no move since the press) inside a
\* designated dynamic plot returns normally, leaves the clicked coordinate on
\* the clipboard and the playback state as it was; a true click changes the
\* playback state only inside a sub-plot plotted against time, and then leaves
\* the clipboard as it was; inside a widget's axes or outside every axes it
\* changes neither.
C34_TrueClick ==
    [][(Ran("mouseUpFn") /\ ~gui._mouseDrag)
        => /\ call.event.inaxes \in DynamicAxes
                => /\ ret' = "ok"
                   /\ gui'.clipboardPt # <<>>
                   /\ <<gui'.clipboardPt[1].x, gui'.clipboardPt[1].y>> = call.event.pos
                   /\ Playback' = Playback
           /\ Playback' # Playback
                => /\ call.event.inaxes \in TimeAxes
                   /\ gui'.clipboardPt = gui.clipboardPt
           /\ (call.event.inaxes \in WidgetAxes \/ call.event.inaxes = 0)
                => /\ Playback' = Playback
                   /\ gui'.clipboardPt = gui.clipboardPt]_vars

\* C35: a release that ends a drag returns normally and leaves the playback
\* state and the clipboard as they were; every release leaves the drag flag
\* clear; the drag flag is never left set with the pointer up; and a release
\* with the flag clear on the time plot of a window built with times sets the
\* time as a true click does.
C35_DragIgnored ==
    [][/\ (Ran("mouseUpFn") /\ gui._mouseDrag)
            => /\ ret' = "ok"
               /\ Playback' = Playback
               /\ gui'.clipboardPt = gui.clipboardPt
       /\ Ran("mouseUpFn") => (~gui'._mouseDrag /\ gui'._mouseUp)
       /\ gui'._mouseDrag => ~gui'._mouseUp
       /\ (Ran("mouseUpFn") /\ ~gui._mouseDrag /\ gui._with_times
              /\ call.event.inaxes \in TimeAxes)
            => gui'.ix = <<Nearest(call.event.pos[1])>>]_vars

\* a drag has ended on the time plot at the first sample: the playback is still
\* at the middle sample, where the window was built
C35_DragEnded ==
    /\ Done("mouseUpFn") /\ ret = "ok"
    /\ gui._with_times
    /\ call.event = [inaxes |-> 1, pos |-> <<0, 1>>]
    /\ gui.ix = <<1>> /\ gui._last_ix = <<>>
    /\ ~gui._mouseDrag /\ gui._mouseUp

\* the release the handler is called for is a qualifying release of the mode
\* the controller is in
Qualifying ==
    /\ ~FailedGesture
    /\ \/ call.op = "mouse_event_snap" /\ Mode = "snap"
       \/ call.op = "mouse_event_user_function" /\ Mode = "user_func"

\* the step drew one marker and removed the marker there was, if any
MarkerReplaced ==
    LET ax == gui'.selected_object_temphandle[1].ax
        was == gui.selected_object_temphandle
    IN  /\ gui'.selected_object_temphandle[1].id = mpl.next
        /\ mpl'.axes[ax].arts = mpl.axes[ax].arts + 1
                                   - (IF was # <<>> /\ was[1].ax = ax THEN 1 ELSE 0)

\* C33 (on SpecModes): a qualifying release in SnapWait or UserFuncWait returns
\* normally, leaves a point as the selected object and exactly one temporary
\* marker, leaves the controller in Idle and leaves no modal handler
\* subscribed to pointer releases.
C33_ReleaseEndsMode ==
    [][((Ran("mouse_event_snap") \/ Ran("mouse_event_user_function")) /\ Qualifying)
        => /\ ret' = "ok"
           /\ gui'.selected_object.kind = "point"
           /\ gui'.selected_object_temphandle # <<>>
           /\ MarkerReplaced
           /\ gui'.mouse_wait_state_owner = None
           /\ DOMAIN gui'.connected = {}]_vars

(***************************************************************************)
(* SpecRegistry: the operations on the registry of figures and layers and  *)
(* the render passes, from an empty plotter and from a plotter whose        *)
(* figure F (layer L, entry a, one sub-plot) has been rendered.             *)
(***************************************************************************)
RegistryCalls ==
    {[op |-> "addFig", label |-> "G", domain |-> "dom", display |-> TRUE]}
    \cup {[op |-> "copyFig", newFig |-> n, oldFig |-> o] : n \in {"F", "H"}, o \in {"G", "X"}}
    \cup {[op |-> "setFig", label |-> l] : l \in {None, "F", "G"}}
    \cup {[op |-> "clearFigData", figure_name |-> f] : f \in {"F", "G", "X"}}
    \cup {[op |-> "addLayer", layer_name |-> "L", figure |-> None, set_to_active |-> a,
           kwargs |-> <<>>] : a \in BOOLEAN}
    \cup {[op |-> "set_active_layer", layer |-> "L", figure |-> f] : f \in {None, "F", "X"}}
    \cup {[op |-> "clean"]}
    \cup {[op |-> "show", update |-> "all", rebuild |-> rb] : rb \in BOOLEAN}

RegistrySetup ==
    LET a == addFig(Constructed, "F", "dom", TRUE).p
        b == addLayer(a, "L", None, TRUE, <<>>).p
        c == arrangeFig(b, <<1, 1>>, <<Sub(<<1, 1>>, LayerList(<<"L">>), "sc")>>, None).p
        d == addData(c, D1, [exc |-> "ok", size |-> np_shape(D1)],
                     None, "L", NoSubplot, NoStyle, "a", TRUE, FALSE).p
    IN  show(d, "current", TRUE).p

InitRegistry ==
    /\ \E p \in {Constructed, RegistrySetup} : StateIs(p)
    /\ Idle
    /\ synced = FALSE

NextRegistry ==
    \/ \E c \in RegistryCalls : Invoke(c)
    \/ AddFig
    \/ CopyFig
    \/ SetFig
    \/ ClearFigData
    \/ AddLayer
    \/ SetActiveLayer
    \/ Clean
    \/ Show
    \/ Return

SpecRegistry == InitRegistry /\ [][NextRegistry]_vars

\* C38: the current figure is None or a figure of the registry, and the active
\* layer is None or a layer of a figure of the registry.
C38_PointersResolve ==
    /\ currFig = None \/ currFig \in DOMAIN figs
    /\ active_layer = <<>>
        \/ /\ active_layer[1] \in DOMAIN figs
           /\ active_layer[2] \in DOMAIN figs[active_layer[1]].layers

\* C39: every render handle of a layer belongs to an entry of that layer, and
\* a forced pass over a displayed layer of a displayed figure leaves handles
\* only for entries that are displayed.
C39_HandlesHaveEntries ==
    [][/\ \A f \in DOMAIN figs' : \A l \in DOMAIN figs'[f].layers :
             DOMAIN figs'[f].layers[l].handles \subseteq DOMAIN figs'[f].layers[l].data
       /\ (Ran("show") /\ call.rebuild /\ ret' = "ok")
            => \A f \in DOMAIN figs' : \A l \in DOMAIN figs'[f].layers :
                  (figs'[f].display /\ figs'[f].layers[l].display /\ figs'[f].arranged)
                     => \A n \in DOMAIN figs'[f].layers[l].handles :
                           /\ n \in DOMAIN figs'[f].layers[l].data
                           /\ figs'[f].layers[l].data[n].display]_vars

\* C40: clearFigData of a figure of the registry returns normally, empties the
\* entries of every layer of the figure and keeps the figure and its layers,
\* leaves no active layer exactly when the active layer was of that figure,
\* and no current figure exactly when that figure was current; with a name not
\* in the registry it returns normally and changes nothing.
C40_ClearFigData ==
    [][Ran("clearFigData")
        => IF call.figure_name \in DOMAIN figs
           THEN /\ ret' = "ok"
                /\ DOMAIN figs' = DOMAIN figs
                /\ DOMAIN figs'[call.figure_name].layers = DOMAIN figs[call.figure_name].layers
                /\ \A l \in DOMAIN figs'[call.figure_name].layers :
                      figs'[call.figure_name].layers[l].data = <<>>
                /\ \A f \in DOMAIN figs \ {call.figure_name} : figs'[f] = figs[f]
                /\ active_layer' = IF active_layer # <<>> /\ active_layer[1] = call.figure_name
                                   THEN <<>> ELSE active_layer
                /\ currFig' = IF currFig = call.figure_name THEN None ELSE currFig
           ELSE ret' = "ok" /\ UNCHANGED sceneVars]_vars

====
